---- MODULE Spec2Model ----
(***************************************************************************)
(* Model of the Tolaria stack resolver (src/stack/resolver.py) and of the  *)
(* card lookup it depends on (src/api/scryfall.py).                        *)
(*                                                                         *)
(* One resolve_interaction request is followed through its await points:   *)
(*   fetch   -> search_cards_bulk                                          *)
(*   build   -> _build_stack                                               *)
(*   steps   -> _generate_resolution_steps                                 *)
(*   explain -> the stack and the steps are available to the explanation   *)
(*                                                                         *)
(* Python strings that the code inspects character by character (oracle    *)
(* texts) are sequences of one-character strings. Strings the code only    *)
(* assembles (f-strings, joins) are sequences of the pieces it puts        *)
(* together, in the order it puts them.                                    *)
(***************************************************************************)
EXTENDS Integers, Sequences, FiniteSets

VARIABLES
    \* one resolve_interaction request
    pc, card_names, player_actions, cards, stack, resolution_steps,
    \* its explanation: the question, the context handed to the rules engine,
    \* what the language model does, the calls made to it, the outcome
    question, context, llm_reply, llm_calls, response,
    \* one search_relevant_rules call: its arguments and its result
    rank_pc, rank_query, rank_k, rank_out,
    \* one generate_stack_html call: current_step, the state class of each
    \* rendered stack item (top first), the entries of the resolution list
    viz_step, viz_items, viz_list,
    \* the API process: the module globals of api/index.py, its environment
    \* (API key set, rules_data.json present), the requests it has received
    \* and the number of successful RulesEngineLite constructions
    rules_engine, stack_resolver, env, requests, constructions

resolveVars == <<pc, card_names, player_actions, cards, stack, resolution_steps>>

askVars == <<question, context, llm_reply, llm_calls, response>>

rankVars == <<rank_pc, rank_query, rank_k, rank_out>>

vizVars == <<viz_step, viz_items, viz_list>>

apiVars == <<rules_engine, stack_resolver, env, requests, constructions>>

vars == <<resolveVars, askVars, rankVars, vizVars, apiVars>>

----------------------------------------------------------------------------
(* Bounds of the model *)

MaxCards == 2

\* largest k handed to search_relevant_rules
MaxK == 9

MaxActions == 3

----------------------------------------------------------------------------
(* Generic helpers for Python built-ins *)

\* all sequences over S of length 0..n
BoundedSeq(S, n) == UNION {[1..k -> S] : k \in 0..n}

\* the sequences of BoundedSeq(S, n) that name no element twice
DistinctSeq(S, n) ==
    {s \in BoundedSeq(S, n) :
        \A i \in 1..Len(s) : \A j \in 1..Len(s) : i # j => s[i] # s[j]}

\* dict.get(key, default)
Get(d, key, default) == IF key \in DOMAIN d THEN d[key] ELSE default

\* reversed(seq)
Reversed(s) == [i \in 1..Len(s) |-> s[Len(s) + 1 - i]]

\* sep.join(parts), as the sequence of pieces
RECURSIVE Join(_, _)
Join(parts, sep) ==
    IF Len(parts) = 0 THEN <<>>
    ELSE IF Len(parts) = 1 THEN <<parts[1]>>
    ELSE <<parts[1], sep>> \o Join(Tail(parts), sep)

UpperChars == <<"A","B","C","D","E","F","G","H","I","J","K","L","M",
                "N","O","P","Q","R","S","T","U","V","W","X","Y","Z">>

LowerChars == <<"a","b","c","d","e","f","g","h","i","j","k","l","m",
                "n","o","p","q","r","s","t","u","v","w","x","y","z">>

\* str.lower() on one character
LowerChar(c) ==
    IF \E i \in 1..26 : UpperChars[i] = c
    THEN LowerChars[CHOOSE i \in 1..26 : UpperChars[i] = c]
    ELSE c

\* str.lower()
Lower(text) == [i \in 1..Len(text) |-> LowerChar(text[i])]

\* needle in hay (substring test)
Contains(hay, needle) ==
    \E i \in 0..(Len(hay) - Len(needle)) :
        \A j \in 1..Len(needle) : hay[i + j] = needle[j]

\* text.split('.')[0] if '.' in text else text
FirstSentence(text) ==
    IF \E i \in 1..Len(text) : text[i] = "."
    THEN LET first == CHOOSE i \in 1..Len(text) :
                         /\ text[i] = "."
                         /\ \A j \in 1..(i - 1) : text[j] # "."
         IN  SubSeq(text, 1, first - 1)
    ELSE text

----------------------------------------------------------------------------
(* The card-data provider: what a fuzzy lookup of a name answers *)

\* "Counter target spell."
CounterspellText == <<"C","o","u","n","t","e","r"," ","t","a","r","g","e","t",
                      " ","s","p","e","l","l",".">>

\* "Deal 3. Fast."
BoltText == <<"D","e","a","l"," ","3","."," ","F","a","s","t",".">>

\* the literal 'counter target' of the resolver
CounterPhrase == <<"c","o","u","n","t","e","r"," ","t","a","r","g","e","t">>

\* names a request may ask for; "bolt" is matched fuzzily to the card "Bolt",
\* "Ghost" is answered with 404. A request names each card once.
RequestNames == {"bolt", "Counterspell", "Ghost"}

\* names an action may carry
ActionCards == {"Bolt", "Counterspell", "Ghost"}

\* targets lists an action may carry
TargetLists == {<<>>, <<"Bolt">>, <<"Counterspell">>}

\* _format_card_data: the record kept for a card the provider knows
FormatCardData(raw) ==
    [name |-> raw.name, type_line |-> raw.type_line,
     oracle_text |-> raw.oracle_text, found |-> TRUE]

\* the provider's answer to /cards/named?fuzzy=<name>; 404 for unknown names
ScryfallKnows(card_name) == card_name \in {"bolt", "Counterspell"}

ScryfallRaw(card_name) ==
    IF card_name = "bolt"
    THEN [name |-> "Bolt", type_line |-> "Instant", oracle_text |-> BoltText]
    ELSE [name |-> "Counterspell", type_line |-> "Instant",
          oracle_text |-> CounterspellText]

\* search_cards_bulk's answer for one name: the card, or the placeholder
\* appended when search_card raises ValueError
SearchOne(card_name) ==
    IF ScryfallKnows(card_name)
    THEN FormatCardData(ScryfallRaw(card_name))
    ELSE [name |-> card_name,
          error |-> <<"Card '", card_name, "' not found">>,
          found |-> FALSE]

\* mutant: a name that is not found yields no result
RECURSIVE SearchCardsBulk_DropNotFound(_)
SearchCardsBulk_DropNotFound(names) ==
    IF names = <<>> THEN <<>>
    ELSE IF ScryfallKnows(Head(names))
         THEN <<SearchOne(Head(names))>> \o SearchCardsBulk_DropNotFound(Tail(names))
         ELSE SearchCardsBulk_DropNotFound(Tail(names))

\* search_cards_bulk
RECURSIVE SearchCardsBulk(_)
SearchCardsBulk(names) ==
    IF names = <<>> THEN <<>>
    ELSE <<SearchOne(Head(names))>> \o SearchCardsBulk(Tail(names))

----------------------------------------------------------------------------
(* _build_stack *)

\* next((c for c in cards if c.get("name") == card_name), None): the index
\* of the first such card, 0 for None
FirstMatch(cs, card_name) ==
    IF \E i \in 1..Len(cs) : Get(cs[i], "name", "None") = card_name
    THEN CHOOSE i \in 1..Len(cs) :
            /\ Get(cs[i], "name", "None") = card_name
            /\ \A j \in 1..(i - 1) : Get(cs[j], "name", "None") # card_name
    ELSE 0

\* mutant: positions counted from 1
ActionItem_OneBased(card_data, action, stk) ==
    [card |-> card_data,
     controller |-> Get(action, "player", "Player"),
     targets |-> Get(action, "targets", <<>>),
     position |-> Len(stk) + 1]

\* the stack item appended for a matching action
ActionItem(card_data, action, stk) ==
    [card |-> card_data,
     controller |-> Get(action, "player", "Player"),
     targets |-> Get(action, "targets", <<>>),
     position |-> Len(stk)]

\* mutant: a matching action is put at the front of the list (stack.insert(0, ...))
RECURSIVE BuildFromActions_Prepend(_, _, _)
BuildFromActions_Prepend(cs, actions, stk) ==
    IF actions = <<>> THEN stk
    ELSE LET action == Head(actions)
             m == FirstMatch(cs, Get(action, "card", "None"))
         IN  IF m # 0
             THEN BuildFromActions_Prepend(cs, Tail(actions),
                        <<ActionItem(cs[m], action, stk)>> \o stk)
             ELSE BuildFromActions_Prepend(cs, Tail(actions), stk)

\* the loop over player_actions
RECURSIVE BuildFromActions(_, _, _)
BuildFromActions(cs, actions, stk) ==
    IF actions = <<>> THEN stk
    ELSE LET action == Head(actions)
             m == FirstMatch(cs, Get(action, "card", "None"))
         IN  IF m # 0
             THEN BuildFromActions(cs, Tail(actions),
                                   Append(stk, ActionItem(cs[m], action, stk)))
             ELSE BuildFromActions(cs, Tail(actions), stk)

\* f"Player {idx % 2 + 1}"
PlayerLabel(idx) == IF (idx % 2) + 1 = 1 THEN "Player 1" ELSE "Player 2"

\* the stack item appended for a found card of the bare card list
CardItem(card, idx) ==
    [card |-> card,
     controller |-> PlayerLabel(idx),
     targets |-> <<>>,
     position |-> idx]

\* mutant: the found flag is not looked at
RECURSIVE BuildFromCards_NoFoundCheck(_, _, _)
BuildFromCards_NoFoundCheck(cs, idx, stk) ==
    IF idx >= Len(cs) THEN stk
    ELSE BuildFromCards_NoFoundCheck(cs, idx + 1,
                                     Append(stk, CardItem(cs[idx + 1], idx)))

\* the loop over enumerate(cards); idx is 0-based
RECURSIVE BuildFromCards(_, _, _)
BuildFromCards(cs, idx, stk) ==
    IF idx >= Len(cs) THEN stk
    ELSE IF ~Get(cs[idx + 1], "found", FALSE)
         THEN BuildFromCards(cs, idx + 1, stk)
         ELSE BuildFromCards(cs, idx + 1,
                             Append(stk, CardItem(cs[idx + 1], idx)))

\* truth value of the optional player_actions argument
ActionsSupplied(pa) == pa.given /\ pa.list # <<>>

BuildStackOf(cs, pa) ==
    IF ActionsSupplied(pa)
    THEN BuildFromActions(cs, pa.list, <<>>)
    ELSE BuildFromCards(cs, 0, <<>>)

----------------------------------------------------------------------------
(* _generate_resolution_steps *)

EmptyStackPhrase == <<"Stack is empty. Priority returns to active player.">>

CounteredStatePhrase == <<"This spell was countered and removed from the stack">>

\* mutant: the walk follows push order (the reversal is forgotten)
ResolutionOrder_PushOrder(stk) == stk

\* resolution_order = list(reversed(stack))
ResolutionOrder(stk) == Reversed(stk)

\* mutant: the phrase test without .lower()
CountersSomething_CaseSensitive(card) ==
    Contains(Get(card, "oracle_text", <<>>), CounterPhrase)

\* 'counter target' in card.get('oracle_text', '').lower()
CountersSomething(card) ==
    Contains(Lower(Get(card, "oracle_text", <<>>)), CounterPhrase)

\* the set of a list's elements
ElemsOf(s) == {s[i] : i \in 1..Len(s)}

\* mutant: the targets replace the set instead of being added to it
UpdateCountered_Replaces(countered, stack_item) ==
    IF CountersSomething(stack_item.card)
    THEN ElemsOf(Get(stack_item, "targets", <<>>))
    ELSE countered

\* countered_spells after the update made while visiting stack_item
UpdateCountered(countered, stack_item) ==
    IF CountersSomething(stack_item.card)
    THEN countered \cup ElemsOf(Get(stack_item, "targets", <<>>))
    ELSE countered

\* mutant: an entry that is itself countered no longer counters anything
RECURSIVE CounteredAfter_CounteredIsInert(_, _)
CounteredAfter_CounteredIsInert(ro, k) ==
    IF k = 0 THEN {}
    ELSE LET before == CounteredAfter_CounteredIsInert(ro, k - 1)
         IN  IF ro[k].card.name \in before
             THEN before
             ELSE UpdateCountered(before, ro[k])

\* countered_spells once the first k entries of the resolution order have
\* been visited
RECURSIVE CounteredAfter(_, _)
CounteredAfter(ro, k) ==
    IF k = 0 THEN {}
    ELSE UpdateCountered(CounteredAfter(ro, k - 1), ro[k])

\* mutant: the empty-stack case is not told apart
DescribeStateAfterStep_NoEmptyCase(ro, current_step) ==
    LET remaining == SubSeq(ro, current_step + 1, Len(ro))
    IN  <<"Stack contains: ">>
        \o Join([i \in 1..Len(remaining) |-> remaining[i].card.name], ", ")
        \o <<" (top to bottom)">>

\* mutant: the slice starts at the current entry (resolution_order[current_step - 1:])
DescribeStateAfterStep_OffByOne(ro, current_step) ==
    LET remaining == SubSeq(ro, current_step, Len(ro))
    IN  IF remaining = <<>>
        THEN EmptyStackPhrase
        ELSE <<"Stack contains: ">>
             \o Join([i \in 1..Len(remaining) |-> remaining[i].card.name], ", ")
             \o <<" (top to bottom)">>

\* _describe_state_after_step; current_step is 1-based
DescribeStateAfterStep(ro, current_step) ==
    LET remaining == SubSeq(ro, current_step + 1, Len(ro))
    IN  IF remaining = <<>>
        THEN EmptyStackPhrase
        ELSE <<"Stack contains: ">>
             \o Join([i \in 1..Len(remaining) |-> remaining[i].card.name], ", ")
             \o <<" (top to bottom)">>

\* _generate_step_description
GenerateStepDescription(stack_item, is_last) ==
    LET card == stack_item.card
        oracle_text == Get(card, "oracle_text", <<>>)
        d1 == <<stack_item.controller, " resolves ", card.name, ". ">>
        d2 == IF oracle_text # <<>>
              THEN d1 \o <<"Effect: ">> \o FirstSentence(oracle_text) \o <<".">>
              ELSE d1
        d3 == IF Get(stack_item, "targets", <<>>) # <<>>
              THEN d2 \o <<" Targeting: ">>
                      \o Join(stack_item.targets, ", ") \o <<".">>
              ELSE d2
    IN  IF is_last THEN d3 \o <<" The stack is now empty.">> ELSE d3

CounteredDescriptionTail ==
    " is countered and does not resolve. It goes to the graveyard without its effect taking place."

\* mutant: the countered step keeps the entry's effect text in its description
CounteredStep_WithEffect(idx, card) ==
    [step_number |-> idx,
     action |-> <<card.name, " is countered">>,
     card |-> card,
     description |-> <<card.name, CounteredDescriptionTail, " Effect: ">>
                     \o FirstSentence(Get(card, "oracle_text", <<>>)),
     state_after |-> CounteredStatePhrase]

\* the step built in the is_countered branch
CounteredStep(idx, card) ==
    [step_number |-> idx,
     action |-> <<card.name, " is countered">>,
     card |-> card,
     description |-> <<card.name, CounteredDescriptionTail>>,
     state_after |-> CounteredStatePhrase]

\* the step built in the else branch
ResolveStep(idx, stack_item, ro) ==
    [step_number |-> idx,
     action |-> <<"Resolve ", stack_item.card.name>>,
     card |-> stack_item.card,
     description |-> GenerateStepDescription(stack_item, idx = Len(ro)),
     state_after |-> DescribeStateAfterStep(ro, idx)]

\* is_countered = card['name'] in countered_spells
IsCountered(card, countered) == card.name \in countered

\* one iteration of the loop over enumerate(resolution_order, 1)
StepFor(ro, idx) ==
    IF IsCountered(ro[idx].card, CounteredAfter(ro, idx))
    THEN CounteredStep(idx, ro[idx].card)
    ELSE ResolveStep(idx, ro[idx], ro)

\* mutant: a countered entry gets no step (continue instead of append)
RECURSIVE WalkFrom_DropCountered(_, _, _)
WalkFrom_DropCountered(ro, idx, steps) ==
    IF idx > Len(ro) THEN steps
    ELSE IF IsCountered(ro[idx].card, CounteredAfter(ro, idx))
         THEN WalkFrom_DropCountered(ro, idx + 1, steps)
         ELSE WalkFrom_DropCountered(ro, idx + 1,
                                     Append(steps, StepFor(ro, idx)))

\* the loop: steps.append(step) for idx = from..len(resolution_order)
RECURSIVE WalkFrom(_, _, _)
WalkFrom(ro, idx, steps) ==
    IF idx > Len(ro) THEN steps
    ELSE WalkFrom(ro, idx + 1, Append(steps, StepFor(ro, idx)))

\* mutant: an empty stack yields a step that reports nothing to resolve
GenerateResolutionSteps_StepForEmpty(stk) ==
    IF stk = <<>>
    THEN <<[step_number |-> 1, action |-> <<"Nothing to resolve">>,
            card |-> [name |-> "", found |-> FALSE],
            description |-> <<>>, state_after |-> EmptyStackPhrase]>>
    ELSE WalkFrom(ResolutionOrder(stk), 1, <<>>)

GenerateResolutionSteps(stk) == WalkFrom(ResolutionOrder(stk), 1, <<>>)

----------------------------------------------------------------------------
(* The rule corpus loaded by _load_preprocessed (rules_data.json) *)

\* "405.1"
RuleNumber1 ==
    <<"4","0","5",".","1">>

\* "Order of the Stack"
RuleText1 ==
    <<"O","r","d","e","r"," ","o","f"," ","t","h","e"," ","S","t","a","c",
      "k">>

\* "405.2"
RuleNumber2 ==
    <<"4","0","5",".","2">>

\* "The stack keeps order"
RuleText2 ==
    <<"T","h","e"," ","s","t","a","c","k"," ","k","e","e","p","s"," ","o",
      "r","d","e","r">>

\* "601.2"
RuleNumber3 ==
    <<"6","0","1",".","2">>

\* "strike first"
RuleText3 ==
    <<"s","t","r","i","k","e"," ","f","i","r","s","t">>

\* "100.1"
RuleNumber4 ==
    <<"1","0","0",".","1">>

\* "o n m l k j i h g f e d c b a"
RuleText4 ==
    <<"o"," ","n"," ","m"," ","l"," ","k"," ","j"," ","i"," ","h"," ","g",
      " ","f"," ","e"," ","d"," ","c"," ","b"," ","a">>

\* "903.4"
RuleNumber5 ==
    <<"9","0","3",".","4">>

\* "Zzz"
RuleText5 ==
    <<"Z","z","z">>

\* "stack"
GlossaryKey1 ==
    <<"s","t","a","c","k">>

\* "Stack"
GlossaryTerm1 ==
    <<"S","t","a","c","k">>

\* "Zone where spells wait"
GlossaryDefinition1 ==
    <<"Z","o","n","e"," ","w","h","e","r","e"," ","s","p","e","l","l","s",
      " ","w","a","i","t">>

\* "first strike"
GlossaryKey2 ==
    <<"f","i","r","s","t"," ","s","t","r","i","k","e">>

\* "First strike"
GlossaryTerm2 ==
    <<"F","i","r","s","t"," ","s","t","r","i","k","e">>

\* "Deals damage first"
GlossaryDefinition2 ==
    <<"D","e","a","l","s"," ","d","a","m","a","g","e"," ","f","i","r","s",
      "t">>

\* "a b c d e f g h i j k l m n"
GlossaryKey3 ==
    <<"a"," ","b"," ","c"," ","d"," ","e"," ","f"," ","g"," ","h"," ","i",
      " ","j"," ","k"," ","l"," ","m"," ","n">>

\* "A b c d e f g h i j k l m n"
GlossaryTerm3 ==
    <<"A"," ","b"," ","c"," ","d"," ","e"," ","f"," ","g"," ","h"," ","i",
      " ","j"," ","k"," ","l"," ","m"," ","n">>

\* "x"
GlossaryDefinition3 ==
    <<"x">>

\* "a b c d e f g h i j k l m n o"
GlossaryKey4 ==
    <<"a"," ","b"," ","c"," ","d"," ","e"," ","f"," ","g"," ","h"," ","i",
      " ","j"," ","k"," ","l"," ","m"," ","n"," ","o">>

\* "A b c d e f g h i j k l m n o"
GlossaryTerm4 ==
    <<"A"," ","b"," ","c"," ","d"," ","e"," ","f"," ","g"," ","h"," ","i",
      " ","j"," ","k"," ","l"," ","m"," ","n"," ","o">>

\* "y"
GlossaryDefinition4 ==
    <<"y">>

\* rules_data["rules"], in file order
RulesList ==
    <<[number |-> RuleNumber1, text |-> RuleText1, section |-> "Zones"],
      [number |-> RuleNumber2, text |-> RuleText2, section |-> "Zones"],
      [number |-> RuleNumber3, text |-> RuleText3,
       section |-> "Spells, Abilities, and Effects"],
      [number |-> RuleNumber4, text |-> RuleText4,
       section |-> "Game Concepts"],
      [number |-> RuleNumber5, text |-> RuleText5,
       section |-> "Casual Variants"]>>

\* rules_data["glossary"].items(), in insertion order; key is term.lower()
GlossaryItems ==
    <<[key |-> GlossaryKey1, term |-> GlossaryTerm1,
       definition |-> GlossaryDefinition1],
      [key |-> GlossaryKey2, term |-> GlossaryTerm2,
       definition |-> GlossaryDefinition2],
      [key |-> GlossaryKey3, term |-> GlossaryTerm3,
       definition |-> GlossaryDefinition3],
      [key |-> GlossaryKey4, term |-> GlossaryTerm4,
       definition |-> GlossaryDefinition4]>>

\* "stack order"
Query1 ==
    <<"s","t","a","c","k"," ","o","r","d","e","r">>

\* "The Stack"
Query2 ==
    <<"T","h","e"," ","S","t","a","c","k">>

\* "405.1 stack"
Query3 ==
    <<"4","0","5",".","1"," ","s","t","a","c","k">>

\* "first strike"
Query4 ==
    <<"f","i","r","s","t"," ","s","t","r","i","k","e">>

\* "a b c d e f g h i j k l m n"
Query5 ==
    <<"a"," ","b"," ","c"," ","d"," ","e"," ","f"," ","g"," ","h"," ","i",
      " ","j"," ","k"," ","l"," ","m"," ","n">>

\* "a b c d e f g h i j k l m n o"
Query6 ==
    <<"a"," ","b"," ","c"," ","d"," ","e"," ","f"," ","g"," ","h"," ","i",
      " ","j"," ","k"," ","l"," ","m"," ","n"," ","o">>

\* ""
Query7 ==
    <<>>

\* "3 damage"
Query8 ==
    <<"3"," ","d","a","m","a","g","e">>

\* "FLYING"
Query9 ==
    <<"F","L","Y","I","N","G">>

\* "stack"
Query10 ==
    <<"s","t","a","c","k">>

\* "Does the stack counter it?"
Question1 ==
    <<"D","o","e","s"," ","t","h","e"," ","s","t","a","c","k"," ","c","o","u",
      "n","t","e","r"," ","i","t","?">>

\* "Is 601.2 used?"
Question2 ==
    <<"I","s"," ","6","0","1",".","2"," ","u","s","e","d","?">>

\* the questions asked
Questions == {Question1, Question2}

\* the queries put to the ranker
Queries == {Query1, Query2, Query3, Query4, Query5, Query6, Query7, Query8, Query9, Query10}

----------------------------------------------------------------------------
(* search_relevant_rules *)

WhitespaceChars == {" ", "\t", "\n"}

DigitChars == {"0", "1", "2", "3", "4", "5", "6", "7", "8", "9"}

\* set(text.split()): the maximal runs of non-whitespace characters
Words(text) ==
    LET IsWs(i) == text[i] \in WhitespaceChars
        starts == {i \in 1..Len(text) : ~IsWs(i) /\ (i = 1 \/ IsWs(i - 1))}
        EndOf(i) == CHOOSE j \in i..Len(text) :
                        /\ \A x \in i..j : ~IsWs(x)
                        /\ (j = Len(text) \/ IsWs(j + 1))
    IN  {SubSeq(text, i, EndOf(i)) : i \in starts}

\* any(char.isdigit() for char in query)
HasDigit(text) == \E i \in 1..Len(text) : text[i] \in DigitChars

\* mutant: the rule-number bonus is given whenever the query has a digit
RuleScore_NumberBonusAlways(query, query_lower, query_words, rule) ==
    LET rule_text_lower == Lower(rule.text)
        rule_words == Words(rule_text_lower)
    IN  (IF Contains(rule_text_lower, query_lower) THEN 100 ELSE 0)
        + Cardinality(query_words \cap rule_words) * 10
        + (IF HasDigit(query) THEN 50 ELSE 0)

\* the score of one rule (the body of the loop over rules_data["rules"]);
\* query_lower and query_words are computed once, before the loops
RuleScore(query, query_lower, query_words, rule) ==
    LET rule_text_lower == Lower(rule.text)
        rule_words == Words(rule_text_lower)
    IN  (IF Contains(rule_text_lower, query_lower) THEN 100 ELSE 0)
        + Cardinality(query_words \cap rule_words) * 10
        + (IF HasDigit(query) /\ Contains(query, rule.number) THEN 50 ELSE 0)

\* mutant: a term match is worth 100
GlossaryScore_TermBonus100(query_lower, query_words, item) ==
    LET entry_text_lower == Lower(item.definition)
        entry_words == Words(entry_text_lower)
    IN  (IF Contains(item.key, query_lower) \/ Contains(query_lower, item.key)
         THEN 100 ELSE 0)
        + (IF Contains(entry_text_lower, query_lower) THEN 80 ELSE 0)
        + Cardinality(query_words \cap entry_words) * 8

\* mutant: the term test only asks whether the query contains the term
GlossaryScore_TermInQueryOnly(query_lower, query_words, item) ==
    LET entry_text_lower == Lower(item.definition)
        entry_words == Words(entry_text_lower)
    IN  (IF Contains(query_lower, item.key) THEN 150 ELSE 0)
        + (IF Contains(entry_text_lower, query_lower) THEN 80 ELSE 0)
        + Cardinality(query_words \cap entry_words) * 8

\* the score of one glossary entry (the body of the loop over the glossary)
GlossaryScore(query_lower, query_words, item) ==
    LET entry_text_lower == Lower(item.definition)
        entry_words == Words(entry_text_lower)
    IN  (IF Contains(item.key, query_lower) \/ Contains(query_lower, item.key)
         THEN 150 ELSE 0)
        + (IF Contains(entry_text_lower, query_lower) THEN 80 ELSE 0)
        + Cardinality(query_words \cap entry_words) * 8

\* the dict appended for a rule
RuleResult(rule, score) ==
    [content |-> <<"R", "u", "l", "e", " ">> \o rule.number \o <<":", " ">>
                 \o rule.text,
     metadata |-> [rule_number |-> rule.number, section |-> rule.section],
     score |-> score]

\* the dict appended for a glossary entry
GlossaryResult(item, score) ==
    [content |-> <<"G", "l", "o", "s", "s", "a", "r", "y", " ", "-", " ">>
                 \o item.term \o <<":", " ">> \o item.definition,
     metadata |-> [type |-> "glossary", term |-> item.term],
     score |-> score]

\* scored_results after the first n rules
RECURSIVE ScoredRules(_, _, _, _)
ScoredRules(query, query_lower, query_words, n) ==
    IF n = 0 THEN <<>>
    ELSE LET before == ScoredRules(query, query_lower, query_words, n - 1)
             score == RuleScore(query, query_lower, query_words, RulesList[n])
         IN  IF score > 0
             THEN Append(before, RuleResult(RulesList[n], score))
             ELSE before

\* scored_results after all the rules and the first n glossary entries
RECURSIVE ScoredAll(_, _, _, _)
ScoredAll(query, query_lower, query_words, n) ==
    IF n = 0 THEN ScoredRules(query, query_lower, query_words, Len(RulesList))
    ELSE LET before == ScoredAll(query, query_lower, query_words, n - 1)
             score == GlossaryScore(query_lower, query_words, GlossaryItems[n])
         IN  IF score > 0
             THEN Append(before, GlossaryResult(GlossaryItems[n], score))
             ELSE before

\* mutant: an entry goes before the entries of equal score (unstable order)
InsertByScore_BeforeEquals(sorted, x) ==
    LET ahead == Cardinality({i \in 1..Len(sorted) : sorted[i].score > x.score})
    IN  SubSeq(sorted, 1, ahead) \o <<x>> \o SubSeq(sorted, ahead + 1, Len(sorted))

\* one insertion of the stable descending sort: x goes after every entry
\* whose score is at least its own
InsertByScore(sorted, x) ==
    LET ahead == Cardinality({i \in 1..Len(sorted) : sorted[i].score >= x.score})
    IN  SubSeq(sorted, 1, ahead) \o <<x>> \o SubSeq(sorted, ahead + 1, Len(sorted))

\* scored_results.sort(key=lambda x: x["score"], reverse=True): list.sort is
\* stable, also with reverse=True
RECURSIVE SortByScore(_)
SortByScore(results) ==
    IF results = <<>> THEN <<>>
    ELSE InsertByScore(SortByScore(SubSeq(results, 1, Len(results) - 1)),
                       results[Len(results)])

\* mutant: one entry too many (scored_results[:k + 1])
TopK_OneMore(results, k) ==
    SubSeq(results, 1, IF k + 1 < Len(results) THEN k + 1 ELSE Len(results))

\* scored_results[:k] for k >= 0
TopK(results, k) ==
    SubSeq(results, 1, IF k < Len(results) THEN k ELSE Len(results))

SearchRelevantRules(query, k) ==
    LET query_lower == Lower(query)
        query_words == Words(query_lower)
    IN  TopK(SortByScore(ScoredAll(query, query_lower, query_words,
                                   Len(GlossaryItems))), k)

----------------------------------------------------------------------------
(* _generate_explanation and answer_question *)

\* the characters of a card name
NameChars(name) ==
    CASE name = "Bolt" -> <<"B","o","l","t">>
      [] name = "Counterspell" ->
            <<"C","o","u","n","t","e","r","s","p","e","l","l">>
      [] name = "Ghost" -> <<"G","h","o","s","t">>
      [] name = "bolt" -> <<"b","o","l","t">>

\* ', '.join(names), as characters
RECURSIVE JoinNames(_)
JoinNames(names) ==
    IF names = <<>> THEN <<>>
    ELSE IF Len(names) = 1 THEN NameChars(names[1])
    ELSE NameChars(names[1]) \o <<",", " ">> \o JoinNames(Tail(names))

\* the text of enhanced_question between the question and the stack names:
\* two line breaks and "The stack currently contains (bottom to top): "
EnhancedHead ==
    <<"\n","\n","T","h","e"," ","s","t","a","c","k"," ","c","u","r","r","e",
      "n","t","l","y"," ","c","o","n","t","a","i","n","s"," ","(","b","o",
      "t","t","o","m"," ","t","o"," ","t","o","p",")",":"," ">>

\* the text of enhanced_question after the stack names: "How does this
\* resolve according to the comprehensive rules?" and the four numbered
\* requests, each on its own line
EnhancedTail ==
    <<"\n","\n","H","o","w"," ","d","o","e","s"," ","t","h","i","s"," ","r",
      "e","s","o","l","v","e"," ","a","c","c","o","r","d","i","n","g"," ",
      "t","o"," ","t","h","e"," ","c","o","m","p","r","e","h","e","n","s",
      "i","v","e"," ","r","u","l","e","s","?","\n","P","l","e","a","s","e",
      " ","e","x","p","l","a","i","n",":","\n","1","."," ","T","h","e"," ",
      "c","o","r","r","e","c","t"," ","r","e","s","o","l","u","t","i","o",
      "n"," ","o","r","d","e","r"," ","(","L","I","F","O",")","\n","2",".",
      " ","W","h","e","t","h","e","r"," ","a","n","y"," ","s","p","e","l",
      "l","s","/","a","b","i","l","i","t","i","e","s"," ","c","o","u","n",
      "t","e","r"," ","e","a","c","h"," ","o","t","h","e","r","\n","3",".",
      " ","A","n","y"," ","r","e","l","e","v","a","n","t"," ","p","r","i",
      "o","r","i","t","y"," ","o","r"," ","t","i","m","i","n","g"," ","c",
      "o","n","s","i","d","e","r","a","t","i","o","n","s","\n","4","."," ",
      "T","h","e"," ","f","i","n","a","l"," ","g","a","m","e"," ","s","t",
      "a","t","e"," ","a","f","t","e","r"," ","f","u","l","l"," ","r","e",
      "s","o","l","u","t","i","o","n","\n">>

\* the f-string enhanced_question
EnhancedQuestion(q, stack_order) ==
    <<"\n">> \o q \o EnhancedHead \o JoinNames(stack_order) \o EnhancedTail

\* [f(c) for c in cs if c.get("found")], f picking name, type_line, oracle_text
RECURSIVE CardSummaries(_)
CardSummaries(cs) ==
    IF cs = <<>> THEN <<>>
    ELSE IF Head(cs).found
         THEN <<[name |-> Head(cs).name, type |-> Head(cs).type_line,
                 text |-> Head(cs).oracle_text]>> \o CardSummaries(Tail(cs))
         ELSE CardSummaries(Tail(cs))

\* the context dict of _generate_explanation
BuildContext(cs, st, steps) ==
    [cards |-> CardSummaries(cs),
     stack_order |-> [i \in 1..Len(st) |-> st[i].card.name],
     resolution_order |-> [i \in 1..Len(steps) |-> steps[i].card.name]]

\* pieces of the model's reply: text is a sequence of pieces, the braces
\* and the members of a JSON object being pieces of their own
AnswerMember == "\"answer\": \"Bolt is countered.\""

RefsMember == "\"rule_references\": [\"405.1\"]"

SummaryMember == "\"summary\": \"Countered.\""

MemberPieces == {AnswerMember, RefsMember, SummaryMember}

\* the key and the value json.loads gives for a member
MemberKey(piece) ==
    CASE piece = AnswerMember -> "answer"
      [] piece = RefsMember -> "rule_references"
      [] piece = SummaryMember -> "summary"

AnswerValue == <<"Bolt is countered.">>

RefsValue == <<RuleNumber1>>

\* what the language model does with one request: it answers with a text,
\* the API call raises, or the message comes back with an empty content list
LLMReplies ==
    {[kind |-> "api_error", text |-> <<>>],
     [kind |-> "no_content", text |-> <<>>]}
    \cup
    {[kind |-> "text", text |-> t] : t \in
        {<<"{", AnswerMember, ",", RefsMember, "}">>,
         <<"Here it is: ", "{", AnswerMember, ",", RefsMember, "}", " Bye.">>,
         <<"{", AnswerMember, ",", SummaryMember, "}">>,
         <<"{", RefsMember, "}">>,
         <<"Bolt is countered by Counterspell.">>,
         <<"{", "Bolt is countered", "}">>,
         <<"}", AnswerMember, "{">>,
         <<"{", AnswerMember>>}}

\* str.find(piece): 0-based index of the first occurrence, -1 when absent
Find(text, piece) ==
    IF \E i \in 1..Len(text) : text[i] = piece
    THEN (CHOOSE i \in 1..Len(text) :
              text[i] = piece /\ \A j \in 1..(i - 1) : text[j] # piece) - 1
    ELSE -1

\* str.rfind(piece): 0-based index of the last occurrence, -1 when absent
RFind(text, piece) ==
    IF \E i \in 1..Len(text) : text[i] = piece
    THEN (CHOOSE i \in 1..Len(text) :
              text[i] = piece /\ \A j \in (i + 1)..Len(text) : text[j] # piece) - 1
    ELSE -1

\* text[a:b] for 0 <= a <= b
Slice(text, a, b) == SubSeq(text, a + 1, b)

\* json.loads succeeds on the slice: an opening brace, members separated by
\* commas (or none), a closing brace
IsJsonObject(text) ==
    /\ Len(text) >= 2
    /\ text[1] = "{"
    /\ text[Len(text)] = "}"
    /\ \/ Len(text) = 2
       \/ /\ Len(text) % 2 = 1
          /\ \A i \in 2..(Len(text) - 1) :
                IF i % 2 = 0 THEN text[i] \in MemberPieces ELSE text[i] = ","

\* the dict json.loads returns for the slice
JsonLoads(text) ==
    LET keys == {MemberKey(text[i]) : i \in {j \in 2..(Len(text) - 1) :
                                                text[j] \in MemberPieces}}
    IN  [raised |-> FALSE,
         has_answer |-> "answer" \in keys,
         answer |-> IF "answer" \in keys THEN AnswerValue ELSE <<>>,
         has_refs |-> "rule_references" \in keys,
         rule_references |-> IF "rule_references" \in keys THEN RefsValue
                             ELSE <<>>]

\* [r["metadata"].get("rule_number", "") for r in relevant_rules
\*  if "rule_number" in r["metadata"]]
RECURSIVE RuleNumbersOf(_)
RuleNumbersOf(relevant) ==
    IF relevant = <<>> THEN <<>>
    ELSE IF "rule_number" \in DOMAIN Head(relevant).metadata
         THEN <<Head(relevant).metadata.rule_number>>
              \o RuleNumbersOf(Tail(relevant))
         ELSE RuleNumbersOf(Tail(relevant))

\* mutant: the structured fallback lists no rule
StructuredFallback_NoReferences(response_text, relevant_rules) ==
    [raised |-> FALSE,
     has_answer |-> TRUE, answer |-> response_text,
     has_refs |-> TRUE, rule_references |-> <<>>]

\* the result of the else branch ("Fallback: structure the response")
StructuredFallback(response_text, relevant_rules) ==
    [raised |-> FALSE,
     has_answer |-> TRUE, answer |-> response_text,
     has_refs |-> TRUE, rule_references |-> RuleNumbersOf(relevant_rules)]

\* the result of the except branch ("Fallback to plain text response")
PlainTextFallback(response_text) ==
    [raised |-> FALSE,
     has_answer |-> TRUE, answer |-> response_text,
     has_refs |-> TRUE, rule_references |-> <<>>]

\* an exception leaves answer_question
Raised ==
    [raised |-> TRUE,
     has_answer |-> FALSE, answer |-> <<>>,
     has_refs |-> FALSE, rule_references |-> <<>>]

\* answer_question(q, context) when the language model does `reply`
AnswerQuestion(q, reply) ==
    LET relevant_rules == SearchRelevantRules(q, 8)
        response_text == reply.text
        json_start == Find(response_text, "{")
        json_end == RFind(response_text, "}") + 1
    IN  IF reply.kind # "text" THEN Raised
        ELSE IF json_start # -1 /\ json_end > json_start
             THEN IF IsJsonObject(Slice(response_text, json_start, json_end))
                  THEN JsonLoads(Slice(response_text, json_start, json_end))
                  ELSE PlainTextFallback(response_text)
             ELSE StructuredFallback(response_text, relevant_rules)

\* the dict resolve_interaction returns; explanation["answer"] raises KeyError
\* when the parsed object has no answer
CreateResponse(st, steps, explanation) ==
    IF explanation.raised \/ ~explanation.has_answer
    THEN [status |-> "failed", stack_visualization |-> <<>>,
          resolution_steps |-> <<>>, explanation |-> <<>>,
          rules_references |-> <<>>]
    ELSE [status |-> "ok", stack_visualization |-> st,
          resolution_steps |-> steps, explanation |-> explanation.answer,
          rules_references |-> IF explanation.has_refs
                               THEN explanation.rule_references ELSE <<>>]

\* mutant: a failed call is made again
AfterReply_RetryOnFailure(resp) ==
    IF resp.status = "ok" THEN "done" ELSE "explain"

\* where the request stands once answer_question has returned or raised
AfterReply(resp) ==
    IF resp.status = "ok" THEN "done" ELSE "failed"

----------------------------------------------------------------------------
(* stack/visualizer.py: generate_stack_html *)

\* the state class of the stack item at actual_position, n being len(stack)
StateClass(n, actual_position, current_step) ==
    IF current_step > 0
    THEN IF actual_position > (n - current_step) THEN "resolved"
         ELSE IF actual_position = (n - current_step + 1) THEN "resolving"
         ELSE ""
    ELSE ""

\* the stack items written by the loop over enumerate(reversed(stack))
StackItemsHtml(stk, current_step) ==
    LET n == Len(stk)
        rev == Reversed(stk)
    IN  [x \in 1..n |->
            LET idx == x - 1
                actual_position == n - idx
            IN  [name |-> rev[x].card.name,
                 controller |-> rev[x].controller,
                 actual_position |-> actual_position,
                 z_index |-> n - idx,
                 top_label |-> (idx = 0),
                 state_class |-> StateClass(n, actual_position, current_step)]]

\* the class of entry idx of the resolution list
StepClass(idx, current_step) ==
    IF current_step > 0
    THEN IF idx < current_step THEN "done"
         ELSE IF idx = current_step THEN "current"
         ELSE ""
    ELSE ""

\* mutant: the visualizer collects the targets of the whole stack first
VizCounteredAfter_WholeStack(rev, k) ==
    UNION {IF Contains(Lower(Get(rev[x].card, "oracle_text", <<>>)),
                       <<"c","o","u","n","t","e","r"," ","t","a","r","g","e","t">>)
           THEN ElemsOf(Get(rev[x], "targets", <<>>)) ELSE {} : x \in 1..Len(rev)}

\* countered_spells of generate_stack_html once the first k entries of
\* reversed(stack) have been visited
RECURSIVE VizCounteredAfter(_, _)
VizCounteredAfter(rev, k) ==
    IF k = 0 THEN {}
    ELSE LET item == rev[k]
             oracle_text == Lower(Get(item.card, "oracle_text", <<>>))
             before == VizCounteredAfter(rev, k - 1)
         IN  IF Contains(oracle_text,
                   <<"c","o","u","n","t","e","r"," ","t","a","r","g","e","t">>)
             THEN before \cup ElemsOf(Get(item, "targets", <<>>))
             ELSE before

\* the entries written by the loop over enumerate(reversed(stack), 1)
ResolutionListHtml(stk, current_step) ==
    LET rev == Reversed(stk)
    IN  [idx \in 1..Len(stk) |->
            [name |-> rev[idx].card.name,
             step_class |-> StepClass(idx, current_step),
             is_countered |-> rev[idx].card.name \in VizCounteredAfter(rev, idx)]]

----------------------------------------------------------------------------
(* resolve_interaction *)

\* the actions a caller may supply
ActionSet ==
    {[card |-> c, player |-> "Player 1", targets |-> t] :
        c \in ActionCards, t \in TargetLists}

\* player_actions: None, or a list (possibly empty)
ActionsArgs ==
    {[given |-> FALSE, list |-> <<>>]}
    \cup {[given |-> TRUE, list |-> l] : l \in BoundedSeq(ActionSet, MaxActions)}

\* no explanation has been asked for yet
NoContext == [cards |-> <<>>, stack_order |-> <<>>, resolution_order |-> <<>>]

NoResponse ==
    [status |-> "none", stack_visualization |-> <<>>, resolution_steps |-> <<>>,
     explanation |-> <<>>, rules_references |-> <<>>]

NoReply == [kind |-> "none", text |-> <<>>]

AskIdle ==
    /\ question = Question1
    /\ context = NoContext
    /\ llm_reply = NoReply
    /\ llm_calls = 0
    /\ response = NoResponse

\* no search_relevant_rules call is under way
RankIdle ==
    /\ rank_pc = "idle"
    /\ rank_query = <<>>
    /\ rank_k = 0
    /\ rank_out = <<>>

\* nothing has been rendered
VizIdle ==
    /\ viz_step = 0
    /\ viz_items = <<>>
    /\ viz_list = <<>>

\* no API process is running
ApiIdle ==
    /\ rules_engine = "None"
    /\ stack_resolver = "None"
    /\ env = [api_key |-> TRUE, corpus |-> TRUE]
    /\ requests = <<>>
    /\ constructions = 0

Init ==
    /\ pc = "fetch"
    /\ card_names \in DistinctSeq(RequestNames, MaxCards)
    /\ player_actions \in ActionsArgs
    /\ cards = <<>>
    /\ stack = <<>>
    /\ resolution_steps = <<>>
    /\ AskIdle
    /\ RankIdle
    /\ VizIdle
    /\ ApiIdle

\* cards = await self.scryfall.search_cards_bulk(card_names)
FetchCards ==
    /\ pc = "fetch"
    /\ cards' = SearchCardsBulk(card_names)
    /\ pc' = "build"
    /\ UNCHANGED <<card_names, player_actions, stack, resolution_steps>>
    /\ UNCHANGED <<askVars, rankVars, vizVars, apiVars>>

\* mutant: building the stack empties the targets list of every action
BuildStack_ConsumesTargets ==
    /\ pc = "build"
    /\ stack' = BuildStackOf(cards, player_actions)
    /\ player_actions' =
          [player_actions EXCEPT !.list =
              [i \in 1..Len(player_actions.list) |->
                  [player_actions.list[i] EXCEPT !.targets = <<>>]]]
    /\ pc' = "steps"
    /\ UNCHANGED <<card_names, cards, resolution_steps>>
    /\ UNCHANGED <<askVars, rankVars, vizVars, apiVars>>

\* stack = await self._build_stack(cards, player_actions)
BuildStack ==
    /\ pc = "build"
    /\ stack' = BuildStackOf(cards, player_actions)
    /\ pc' = "steps"
    /\ UNCHANGED <<card_names, player_actions, cards, resolution_steps>>
    /\ UNCHANGED <<askVars, rankVars, vizVars, apiVars>>

\* resolution_steps = await self._generate_resolution_steps(stack, question)
GenerateSteps ==
    /\ pc = "steps"
    /\ resolution_steps' = GenerateResolutionSteps(stack)
    /\ pc' = "explain"
    /\ UNCHANGED <<card_names, player_actions, cards, stack>>
    /\ UNCHANGED <<askVars, rankVars, vizVars, apiVars>>

Next == FetchCards \/ BuildStack \/ GenerateSteps

Spec == Init /\ [][Next]_vars

----------------------------------------------------------------------------
(* resolve_interaction with its explanation step *)

\* largest number of actions of a request that is followed to its response
MaxAskActions == 1

InitAsk ==
    /\ pc = "fetch"
    /\ card_names \in DistinctSeq(RequestNames, MaxCards)
    /\ player_actions \in
          {[given |-> FALSE, list |-> <<>>]}
          \cup {[given |-> TRUE, list |-> l] :
                    l \in BoundedSeq(ActionSet, MaxAskActions)}
    /\ cards = <<>>
    /\ stack = <<>>
    /\ resolution_steps = <<>>
    /\ question \in Questions
    /\ context = NoContext
    /\ llm_reply = NoReply
    /\ llm_calls = 0
    /\ response = NoResponse
    /\ RankIdle
    /\ VizIdle
    /\ ApiIdle

\* _generate_explanation up to self.client.messages.create(...): the context
\* is built and the one request to the language model is sent
CallModel ==
    /\ pc = "explain"
    /\ context' = BuildContext(cards, stack, resolution_steps)
    /\ llm_calls' = llm_calls + 1
    /\ pc' = "await_llm"
    /\ UNCHANGED <<card_names, player_actions, cards, stack, resolution_steps>>
    /\ UNCHANGED <<question, llm_reply, response, rankVars, vizVars, apiVars>>

\* the language model answers or fails; answer_question parses the reply and
\* resolve_interaction builds its response, or the exception leaves it
ModelReplies ==
    /\ pc = "await_llm"
    /\ \E reply \in LLMReplies :
          LET explanation ==
                  AnswerQuestion(EnhancedQuestion(question, context.stack_order),
                                 reply)
              resp == CreateResponse(stack, resolution_steps, explanation)
          IN  /\ llm_reply' = reply
              /\ response' = resp
              /\ pc' = AfterReply(resp)
    /\ UNCHANGED <<card_names, player_actions, cards, stack, resolution_steps>>
    /\ UNCHANGED <<question, context, llm_calls, rankVars, vizVars, apiVars>>

NextAsk == FetchCards \/ BuildStack \/ GenerateSteps \/ CallModel \/ ModelReplies

SpecAsk == InitAsk /\ [][NextAsk]_vars

----------------------------------------------------------------------------
(* api/index.py: the process, its lazily built rules engine and its requests *)

\* largest number of requests the process receives in one behaviour
MaxRequests == 2

\* str(e) of the exceptions that can leave the handler
MissingKeyText == "ANTHROPIC_API_KEY not found in environment"

MissingCorpusText ==
    "Pre-processed rules not found at rules/rules_data.json. "
    \o "Run 'python preprocess_rules.py' first!"

ModelCallErrorText == "Connection error."

NoContentText == "list index out of range"

MissingAnswerText == "'answer'"

ProviderErrorText == "500 Server Error"

\* the bodies of the POST /api/ask requests
AskBodies ==
    {[question |-> Question1, cards |-> <<"bolt", "Counterspell">>,
      player_actions |-> [given |-> FALSE, list |-> <<>>]],
     [question |-> Question1, cards |-> <<"bolt", "Counterspell">>,
      player_actions |->
          [given |-> TRUE,
           list |-> <<[card |-> "Bolt", player |-> "Player 1",
                       targets |-> <<>>],
                      [card |-> "Counterspell", player |-> "Player 1",
                       targets |-> <<"Bolt">>]>>]],
     [question |-> Question2, cards |-> <<"Ghost">>,
      player_actions |->
          [given |-> TRUE,
           list |-> <<[card |-> "Ghost", player |-> "Player 1",
                       targets |-> <<>>]>>]],
     [question |-> Question1, cards |-> <<>>,
      player_actions |-> [given |-> FALSE, list |-> <<>>]]}

\* what the language model does with the call of an API request
ApiReplies ==
    {r \in LLMReplies :
        \/ r.kind # "text"
        \/ r.text \in {<<"{", AnswerMember, ",", RefsMember, "}">>,
                       <<"{", RefsMember, "}">>,
                       <<"Bolt is countered by Counterspell.">>}}

NoHttp == [status |-> 0, result |-> NoResponse, detail |-> <<>>]

\* return result: FastAPI answers 200 with the dict of resolve_interaction
HttpOk(result) == [status |-> 200, result |-> result, detail |-> <<>>]

\* mutant: the exception is swallowed and an empty result is returned
HttpFailure_Swallowed(text) ==
    [status |-> 200, result |-> NoResponse, detail |-> <<>>]

\* the except branch of ask_question: HTTPException(status_code=500,
\* detail=f"Error: {str(e)}\nTraceback: {traceback.format_exc()}")
HttpFailure(text) ==
    [status |-> 500, result |-> NoResponse,
     detail |-> <<"Error: ", text, "\nTraceback: ", "traceback">>]

\* str(e) of what the constructor RulesEngineLite() raises in environment e:
\* the key is tested first, then the corpus file
ConstructionErrorText(e) ==
    IF ~e.api_key THEN MissingKeyText ELSE MissingCorpusText

\* mutant: the constructor does not load the corpus
ConstructionSucceeds_IgnoresCorpus(e) == e.api_key

\* RulesEngineLite() returns
ConstructionSucceeds(e) == e.api_key /\ e.corpus

\* str(e) of the exception that leaves resolve_interaction after the reply
ExplanationErrorText(reply) ==
    CASE reply.kind = "api_error" -> ModelCallErrorText
      [] reply.kind = "no_content" -> NoContentText
      [] OTHER -> MissingAnswerText

\* a request as the process holds it: its kind and body, where its handler
\* stands, the locals of resolve_interaction, the reply of the language
\* model, and the HTTP response once sent
NewAsk(body, at) ==
    [kind |-> "ask", body |-> body, pc |-> at, cards |-> <<>>, stack |-> <<>>,
     resolution_steps |-> <<>>, reply |-> NoReply, http |-> NoHttp]

NoBody ==
    [question |-> <<>>, cards |-> <<>>,
     player_actions |-> [given |-> FALSE, list |-> <<>>]]

\* mutant: the locals of resolve_interaction are kept on the shared resolver
WithRequest_SharedLocals(reqs, i, r) ==
    [j \in DOMAIN reqs |->
        IF j = i THEN r
        ELSE IF reqs[j].kind = "ask" /\ reqs[j].pc # "responded"
             THEN [reqs[j] EXCEPT !.cards = r.cards, !.stack = r.stack,
                                  !.resolution_steps = r.resolution_steps]
             ELSE reqs[j]]

\* one request moves on; its locals are its own
WithRequest(reqs, i, r) == [reqs EXCEPT ![i] = r]

InitApi ==
    /\ rules_engine = "None"
    /\ stack_resolver = "None"
    /\ env \in [api_key : BOOLEAN, corpus : BOOLEAN]
    /\ requests = <<>>
    /\ constructions = 0
    /\ pc = "idle"
    /\ card_names = <<>>
    /\ player_actions = [given |-> FALSE, list |-> <<>>]
    /\ cards = <<>>
    /\ stack = <<>>
    /\ resolution_steps = <<>>
    /\ AskIdle
    /\ RankIdle
    /\ VizIdle

\* GET /health (and GET /): answered without the rules engine
Health ==
    /\ Len(requests) < MaxRequests
    /\ requests' = Append(requests,
          [kind |-> "health", body |-> NoBody, pc |-> "responded",
           cards |-> <<>>, stack |-> <<>>, resolution_steps |-> <<>>,
           reply |-> NoReply,
           http |-> [status |-> 200, result |-> NoResponse, detail |-> <<>>]])
    /\ UNCHANGED <<rules_engine, stack_resolver, env, constructions>>
    /\ UNCHANGED <<resolveVars, askVars, rankVars, vizVars>>

\* mutant: get_rules_engine() builds a new engine for every request
AskArrives_RebuildsEngine ==
    /\ Len(requests) < MaxRequests
    /\ \E body \in AskBodies :
          IF ConstructionSucceeds(env)
          THEN /\ rules_engine' = "RulesEngineLite"
               /\ stack_resolver' = "StackResolver"
               /\ constructions' = constructions + 1
               /\ requests' = Append(requests, NewAsk(body, "fetch"))
          ELSE /\ requests' = Append(requests,
                      [NewAsk(body, "responded") EXCEPT
                          !.http = HttpFailure(ConstructionErrorText(env))])
               /\ UNCHANGED <<rules_engine, stack_resolver, constructions>>
    /\ UNCHANGED env
    /\ UNCHANGED <<resolveVars, askVars, rankVars, vizVars>>

\* POST /api/ask up to its first await: get_rules_engine() builds the engine
\* and the resolver when rules_engine is None, or raises and leaves both None
AskArrives ==
    /\ Len(requests) < MaxRequests
    /\ \E body \in AskBodies :
          IF rules_engine # "None"
          THEN /\ requests' = Append(requests, NewAsk(body, "fetch"))
               /\ UNCHANGED <<rules_engine, stack_resolver, constructions>>
          ELSE IF ConstructionSucceeds(env)
          THEN /\ rules_engine' = "RulesEngineLite"
               /\ stack_resolver' = "StackResolver"
               /\ constructions' = constructions + 1
               /\ requests' = Append(requests, NewAsk(body, "fetch"))
          ELSE /\ requests' = Append(requests,
                      [NewAsk(body, "responded") EXCEPT
                          !.http = HttpFailure(ConstructionErrorText(env))])
               /\ UNCHANGED <<rules_engine, stack_resolver, constructions>>
    /\ UNCHANGED env
    /\ UNCHANGED <<resolveVars, askVars, rankVars, vizVars>>

\* one iteration of the loop of search_cards_bulk: await search_card(name);
\* the provider answers (a card or 404) or fails with another HTTP error,
\* which search_cards_bulk does not catch
ApiFetchCard ==
    /\ \E i \in 1..Len(requests) :
          LET r == requests[i]
          IN  /\ r.kind = "ask"
              /\ r.pc = "fetch"
              /\ Len(r.cards) < Len(r.body.cards)
              /\ \E provider_fails \in BOOLEAN :
                    requests' = WithRequest(requests, i,
                        IF provider_fails
                        THEN [r EXCEPT !.pc = "responded",
                                       !.http = HttpFailure(ProviderErrorText)]
                        ELSE [r EXCEPT !.cards =
                                 Append(r.cards,
                                        SearchOne(r.body.cards[Len(r.cards) + 1]))])
    /\ UNCHANGED <<rules_engine, stack_resolver, env, constructions>>
    /\ UNCHANGED <<resolveVars, askVars, rankVars, vizVars>>

\* search_cards_bulk has returned: stack = await self._build_stack(...)
ApiBuildStack ==
    /\ \E i \in 1..Len(requests) :
          LET r == requests[i]
          IN  /\ r.kind = "ask"
              /\ r.pc = "fetch"
              /\ Len(r.cards) = Len(r.body.cards)
              /\ requests' = WithRequest(requests, i,
                    [r EXCEPT !.stack = BuildStackOf(r.cards, r.body.player_actions),
                              !.pc = "steps"])
    /\ UNCHANGED <<rules_engine, stack_resolver, env, constructions>>
    /\ UNCHANGED <<resolveVars, askVars, rankVars, vizVars>>

\* resolution_steps = await self._generate_resolution_steps(stack, question)
ApiGenerateSteps ==
    /\ \E i \in 1..Len(requests) :
          LET r == requests[i]
          IN  /\ r.kind = "ask"
              /\ r.pc = "steps"
              /\ requests' = WithRequest(requests, i,
                    [r EXCEPT !.resolution_steps = GenerateResolutionSteps(r.stack),
                              !.pc = "explain"])
    /\ UNCHANGED <<rules_engine, stack_resolver, env, constructions>>
    /\ UNCHANGED <<resolveVars, askVars, rankVars, vizVars>>

\* explanation = await self._generate_explanation(...), the response of
\* resolve_interaction and the return or the except branch of ask_question
ApiExplain ==
    /\ \E i \in 1..Len(requests) :
          LET r == requests[i]
          IN  /\ r.kind = "ask"
              /\ r.pc = "explain"
              /\ \E reply \in ApiReplies :
                    LET ctx == BuildContext(r.cards, r.stack, r.resolution_steps)
                        explanation ==
                            AnswerQuestion(
                                EnhancedQuestion(r.body.question, ctx.stack_order),
                                reply)
                        resp == CreateResponse(r.stack, r.resolution_steps,
                                               explanation)
                    IN  requests' = WithRequest(requests, i,
                            [r EXCEPT
                                !.reply = reply,
                                !.pc = "responded",
                                !.http =
                                    IF resp.status = "ok" THEN HttpOk(resp)
                                    ELSE HttpFailure(ExplanationErrorText(reply))])
    /\ UNCHANGED <<rules_engine, stack_resolver, env, constructions>>
    /\ UNCHANGED <<resolveVars, askVars, rankVars, vizVars>>

\* preprocess_rules.py writes rules/rules_data.json
InstallCorpus ==
    /\ ~env.corpus
    /\ env' = [env EXCEPT !.corpus = TRUE]
    /\ UNCHANGED <<rules_engine, stack_resolver, requests, constructions>>
    /\ UNCHANGED <<resolveVars, askVars, rankVars, vizVars>>

NextApi ==
    \/ Health
    \/ AskArrives
    \/ ApiFetchCard
    \/ ApiBuildStack
    \/ ApiGenerateSteps
    \/ ApiExplain
    \/ InstallCorpus

SpecApi == InitApi /\ [][NextApi]_vars

----------------------------------------------------------------------------
(* the stack of a request rendered by generate_stack_html *)

\* generate_stack_html(result["stack_visualization"], current_step), called
\* with current_step = 0 or, through generate_step_visualization, with the
\* number of a resolution step
GenerateStackHtml ==
    /\ pc = "explain"
    /\ \E current_step \in 0..Len(stack) :
          /\ viz_step' = current_step
          /\ viz_items' = StackItemsHtml(stack, current_step)
          /\ viz_list' = ResolutionListHtml(stack, current_step)
    /\ pc' = "rendered"
    /\ UNCHANGED <<card_names, player_actions, cards, stack, resolution_steps>>
    /\ UNCHANGED <<askVars, rankVars, apiVars>>

NextViz == FetchCards \/ BuildStack \/ GenerateSteps \/ GenerateStackHtml

SpecViz == Init /\ [][NextViz]_vars

----------------------------------------------------------------------------
(* search_relevant_rules on its own: one call per behaviour *)

InitRank ==
    /\ rank_pc = "call"
    /\ rank_query \in Queries
    /\ rank_k \in 0..MaxK
    /\ rank_out = <<>>
    /\ pc = "idle"
    /\ card_names = <<>>
    /\ player_actions = [given |-> FALSE, list |-> <<>>]
    /\ cards = <<>>
    /\ stack = <<>>
    /\ resolution_steps = <<>>
    /\ AskIdle
    /\ VizIdle
    /\ ApiIdle

\* scored_results ... return scored_results[:k]
SearchRules ==
    /\ rank_pc = "call"
    /\ rank_out' = SearchRelevantRules(rank_query, rank_k)
    /\ rank_pc' = "returned"
    /\ UNCHANGED <<rank_query, rank_k, resolveVars, askVars, vizVars, apiVars>>

NextRank == SearchRules

SpecRank == InitRank /\ [][NextRank]_vars

----------------------------------------------------------------------------
(* Vocabulary of the properties *)

\* the steps of the request have been computed
StepsReady == pc = "explain"

\* the stack of the request has been built
StackReady == pc \in {"steps", "explain"}

StackSize == Len(stack)

\* the step is the one emitted for a cancelled entry
MarkedCancelled(step) == step.action = <<step.card.name, " is countered">>

\* the card's oracle text holds 'counter target', letter case ignored
HasCancelPhrase(card) ==
    LET text == IF "oracle_text" \in DOMAIN card THEN card.oracle_text ELSE <<>>
    IN  \E i \in 0..(Len(text) - Len(CounterPhrase)) :
            \A j \in 1..Len(CounterPhrase) :
                \/ text[i + j] = CounterPhrase[j]
                \/ \E u \in 1..26 : /\ text[i + j] = UpperChars[u]
                                    /\ CounterPhrase[j] = LowerChars[u]

\* stack index k names one of the targets of stack index e
Targets(e, k) ==
    \E x \in 1..Len(stack[e].targets) : stack[e].targets[x] = stack[k].card.name

\* the step emitted for stack index k under reverse-of-push order
StepOf(k) == resolution_steps[StackSize + 1 - k]

\* the names a state_after sentence lists, in the order it lists them
ListedNames(sa) ==
    IF Len(sa) >= 3 /\ sa[1] = "Stack contains: "
    THEN [x \in 1..((Len(sa) - 1) \div 2) |-> sa[2 * x]]
    ELSE <<>>

----------------------------------------------------------------------------
(* C1 *)

\* C1: the step at 0-based index i carries the card of the push-order entry
\* at index N-1-i (1-based: step i carries the card of stack[N+1-i]), for
\* cancelled and non-cancelled steps alike.
C1_ReverseOfPushOrder ==
    StepsReady =>
        /\ Len(resolution_steps) = StackSize
        /\ \A i \in 1..StackSize :
              resolution_steps[i].card = stack[StackSize + 1 - i].card

C1_Witness ==
    /\ StepsReady
    /\ StackSize >= 2
    /\ stack[1].card # stack[StackSize].card
    /\ \E i \in 1..Len(resolution_steps) : MarkedCancelled(resolution_steps[i])
    /\ \E i \in 1..Len(resolution_steps) : ~MarkedCancelled(resolution_steps[i])

----------------------------------------------------------------------------
(* C2 *)

\* C2 as stated: a cancelling entry that targets another entry's exact name
\* gets that entry's step marked cancelled, whatever their relative order.
C2_AnyOrder ==
    StepsReady =>
        \A e \in 1..StackSize : \A t \in 1..StackSize :
            (e # t /\ HasCancelPhrase(stack[e].card) /\ Targets(e, t))
                => MarkedCancelled(StepOf(t))

\* C2 amended: a cancelling entry pushed after the entry whose exact name it
\* targets (so resolving before it) gets that entry's step marked cancelled.
C2_PushedAfterTarget ==
    StepsReady =>
        \A e \in 1..StackSize : \A t \in 1..StackSize :
            (t < e /\ HasCancelPhrase(stack[e].card) /\ Targets(e, t))
                => /\ Len(resolution_steps) = StackSize
                   /\ MarkedCancelled(StepOf(t))

C2_Witness ==
    /\ StepsReady
    /\ \E e \in 1..StackSize : \E t \in 1..StackSize :
          /\ t < e
          /\ HasCancelPhrase(stack[e].card)
          /\ Targets(e, t)
          /\ stack[e].card.name # stack[t].card.name
          /\ MarkedCancelled(StepOf(t))

----------------------------------------------------------------------------
(* C3 *)

\* C3 as stated: the state_after of the last step is the empty-stack phrase,
\* whether or not the last step is marked cancelled.
C3_LastStateAlwaysEmptyPhrase ==
    (StepsReady /\ Len(resolution_steps) > 0) =>
        resolution_steps[Len(resolution_steps)].state_after = EmptyStackPhrase

\* C3 amended: the state_after of the last step is the empty-stack phrase
\* when the last step is not marked cancelled, and the fixed countered
\* sentence when it is.
C3_LastStateAfter ==
    (StepsReady /\ StackSize > 0) =>
        /\ Len(resolution_steps) = StackSize
        /\ LET last == resolution_steps[StackSize]
           IN  IF MarkedCancelled(last)
               THEN last.state_after = CounteredStatePhrase
               ELSE last.state_after = EmptyStackPhrase

C3_Witness ==
    /\ StepsReady
    /\ StackSize >= 2
    /\ Len(resolution_steps) = StackSize
    /\ MarkedCancelled(resolution_steps[StackSize])
    /\ ~MarkedCancelled(resolution_steps[1])
    /\ resolution_steps[StackSize].state_after = CounteredStatePhrase

----------------------------------------------------------------------------
(* C4 *)

\* C4: one step per stack entry: as many steps as entries, and every entry,
\* cancelled or not, has exactly one step (the one numbered N+1-k for the
\* entry at push index k) carrying its card.
C4_OneStepPerEntry ==
    StepsReady =>
        /\ Len(resolution_steps) = StackSize
        /\ \A k \in 1..StackSize :
              Cardinality({i \in 1..Len(resolution_steps) :
                              /\ resolution_steps[i].step_number = StackSize + 1 - k
                              /\ resolution_steps[i].card = stack[k].card}) = 1

C4_Witness ==
    /\ StepsReady
    /\ StackSize = MaxActions
    /\ Len(resolution_steps) = StackSize
    /\ \E i \in 1..StackSize : MarkedCancelled(resolution_steps[i])

----------------------------------------------------------------------------
(* C5 *)

\* the cancelled set when the entry at stack index e is visited: the targets
\* of every cancelling entry pushed at or after e
CancelledWhenVisiting(e) ==
    UNION {{stack[k].targets[x] : x \in 1..Len(stack[k].targets)} :
              k \in {k \in e..StackSize : HasCancelPhrase(stack[k].card)}}

\* the first sentence of the card's effect text, read off the text itself
EffectOf(card) ==
    LET text == IF "oracle_text" \in DOMAIN card THEN card.oracle_text ELSE <<>>
        dots == {i \in 1..Len(text) : text[i] = "."}
    IN  IF dots = {} THEN text
        ELSE SubSeq(text, 1, (CHOOSE d \in dots : \A o \in dots : d <= o) - 1)

\* chars occurs as a run of consecutive pieces of the string
OccursIn(str, chars) ==
    \E i \in 0..(Len(str) - Len(chars)) :
        \A j \in 1..Len(chars) : str[i + j] = chars[j]

\* C5: a cancelling entry E pushed after an entry T whose exact name it
\* targets has its step first, a normal 'Resolve' step unless E's own name
\* is in the cancelled set; T's later step is marked cancelled, carries the
\* fixed cancelled description and none of T's effect text.
C5_CancelAfterTarget ==
    StepsReady =>
        \A e \in 1..StackSize : \A t \in 1..StackSize :
            (t < e /\ HasCancelPhrase(stack[e].card) /\ Targets(e, t)) =>
                /\ Len(resolution_steps) = StackSize
                /\ StepOf(e).step_number < StepOf(t).step_number
                /\ StepOf(e).card = stack[e].card
                /\ (stack[e].card.name \notin CancelledWhenVisiting(e))
                      => StepOf(e).action = <<"Resolve ", stack[e].card.name>>
                /\ StepOf(t).card = stack[t].card
                /\ StepOf(t).action = <<stack[t].card.name, " is countered">>
                /\ StepOf(t).description =
                      <<stack[t].card.name, CounteredDescriptionTail>>
                /\ (EffectOf(stack[t].card) # <<>>)
                      => ~OccursIn(StepOf(t).description, EffectOf(stack[t].card))

C5_Witness ==
    /\ StepsReady
    /\ \E e \in 1..StackSize : \E t \in 1..StackSize :
          /\ t < e
          /\ HasCancelPhrase(stack[e].card)
          /\ Targets(e, t)
          /\ stack[e].card.name \notin CancelledWhenVisiting(e)
          /\ EffectOf(stack[t].card) # <<>>
          /\ StepOf(e).action = <<"Resolve ", stack[e].card.name>>
          /\ MarkedCancelled(StepOf(t))

----------------------------------------------------------------------------
(* C6 *)

\* C6 as stated: for every step but the last, state_after lists exactly the
\* names of the entries resolving after it, in ascending push position
\* (bottom to top).
C6_RemainingBottomToTop ==
    StepsReady =>
        \A i \in 1..(Len(resolution_steps) - 1) :
            ListedNames(resolution_steps[i].state_after)
                = [x \in 1..(StackSize - i) |-> stack[x].card.name]

\* C6 amended: for every step but the last that is not marked cancelled,
\* state_after lists exactly the names of the entries resolving after it, in
\* resolution order (top to bottom, descending push position); a step marked
\* cancelled carries the fixed countered sentence instead.
C6_RemainingTopToBottom ==
    StepsReady =>
        \A i \in 1..(StackSize - 1) :
            /\ Len(resolution_steps) = StackSize
            /\ IF MarkedCancelled(resolution_steps[i])
               THEN resolution_steps[i].state_after = CounteredStatePhrase
               ELSE /\ resolution_steps[i].state_after[1] = "Stack contains: "
                    /\ ListedNames(resolution_steps[i].state_after)
                          = [x \in 1..(StackSize - i) |->
                                stack[StackSize - i + 1 - x].card.name]

C6_Witness ==
    /\ StepsReady
    /\ StackSize >= 3
    /\ ~MarkedCancelled(resolution_steps[1])
    /\ stack[1].card.name # stack[2].card.name
    /\ ListedNames(resolution_steps[1].state_after)
          = <<stack[2].card.name, stack[1].card.name>>
    /\ \E i \in 2..(StackSize - 1) : MarkedCancelled(resolution_steps[i])

----------------------------------------------------------------------------
(* C7 *)

\* C7: no stack entry produced by _build_stack, with or without Actions,
\* carries a card whose found flag is false.
C7_NoPlaceholderOnStack ==
    StackReady =>
        \A k \in 1..StackSize :
            "found" \in DOMAIN stack[k].card /\ stack[k].card.found

----------------------------------------------------------------------------
(* C8 *)

\* the action names a fetched card
NamesFetchedCard(action) ==
    \E i \in 1..Len(cards) : cards[i].name = action.card

\* C8: with a non-empty Actions list the stack holds one entry per action
\* whose card name equals the name of a fetched card, in action order, with
\* positions 0,1,...,n-1; the other actions contribute nothing.
C8_EntriesFromActions ==
    (StackReady /\ player_actions.given /\ player_actions.list # <<>>) =>
        LET matching == SelectSeq(player_actions.list, NamesFetchedCard)
        IN  /\ Len(stack) = Len(matching)
            /\ \A k \in 1..Len(matching) :
                  /\ stack[k].position = k - 1
                  /\ stack[k].card.name = matching[k].card
                  /\ stack[k].card \in {cards[i] : i \in 1..Len(cards)}
                  /\ stack[k].controller = matching[k].player
                  /\ stack[k].targets = matching[k].targets

C8_Witness ==
    /\ StackReady
    /\ player_actions.given
    /\ Len(player_actions.list) = 3
    /\ ~NamesFetchedCard(player_actions.list[1])
    /\ NamesFetchedCard(player_actions.list[2])
    /\ NamesFetchedCard(player_actions.list[3])
    /\ player_actions.list[2].card # player_actions.list[3].card
    /\ Len(stack) = 2
    /\ stack[1].position = 0

----------------------------------------------------------------------------
(* C9 *)

\* C9: for every built stack, from Actions or from the bare card list, the
\* entry resolved at step i (1-based) has position N - i, and step numbers
\* are 1..N in increasing order.
C9_StepResolvesPositionNMinusI ==
    StepsReady =>
        /\ Len(resolution_steps) = StackSize
        /\ \A i \in 1..StackSize :
              /\ resolution_steps[i].step_number = i
              /\ stack[StackSize + 1 - i].position = StackSize - i

----------------------------------------------------------------------------
(* C10 *)

\* C10: position is strictly increasing in push order (so never repeated);
\* the entry with the highest position is the last element of the stack and
\* the one resolved at step 1.
C10_PositionsIncrease ==
    /\ StackReady =>
          \A i \in 1..StackSize : \A j \in 1..StackSize :
              i < j => stack[i].position < stack[j].position
    /\ (StepsReady /\ StackSize > 0) =>
          /\ \A k \in 1..StackSize : stack[k].position <= stack[StackSize].position
          /\ Len(resolution_steps) = StackSize
          /\ resolution_steps[1].step_number = 1
          /\ resolution_steps[1].card = stack[StackSize].card

C10_Witness ==
    /\ StepsReady
    /\ StackSize >= 2
    /\ stack[1].card # stack[StackSize].card
    /\ stack[StackSize].position > stack[1].position
    /\ resolution_steps[1].card = stack[StackSize].card

----------------------------------------------------------------------------
(* C11 *)

\* the 1-based indices of the fetched cards whose found flag is true, in
\* fetch order
RECURSIVE FoundIndices(_)
FoundIndices(n) ==
    IF n = 0 THEN <<>>
    ELSE IF "found" \in DOMAIN cards[n] /\ cards[n].found
         THEN Append(FoundIndices(n - 1), n)
         ELSE FoundIndices(n - 1)

\* C11: without Actions (absent or an empty list) the stack is exactly the
\* fetched cards with found=true, in fetch order, each with empty targets
\* and a controller alternating 'Player 1' / 'Player 2' by the parity of the
\* card's index in the fetched list; it is empty when no card is found.
C11_BareCardList ==
    (StackReady /\ (~player_actions.given \/ player_actions.list = <<>>)) =>
        LET fi == FoundIndices(Len(cards))
        IN  /\ Len(stack) = Len(fi)
            /\ \A x \in 1..Len(fi) :
                  /\ stack[x].card = cards[fi[x]]
                  /\ stack[x].targets = <<>>
                  /\ stack[x].controller =
                        (IF (fi[x] - 1) % 2 = 0 THEN "Player 1" ELSE "Player 2")

C11_Witness ==
    /\ StackReady
    /\ player_actions.given
    /\ player_actions.list = <<>>
    /\ Len(cards) = 2
    /\ ~cards[1].found
    /\ cards[2].found
    /\ Len(stack) = 1
    /\ stack[1].controller = "Player 2"

----------------------------------------------------------------------------
(* C12 *)

\* C12: a cancelling entry adds every one of its targets to the cancelled
\* set even when its own step is marked cancelled: every entry pushed at or
\* before it whose name it targets is marked cancelled. In a chain A, B
\* countering A, C countering B, both B and A are marked cancelled.
C12_CancelledStillCancels ==
    StepsReady =>
        /\ \A e \in 1..StackSize : \A t \in 1..StackSize :
              (/\ t <= e
               /\ HasCancelPhrase(stack[e].card)
               /\ MarkedCancelled(StepOf(e))
               /\ Targets(e, t))
                  => MarkedCancelled(StepOf(t))
        /\ \A a \in 1..StackSize : \A b \in 1..StackSize : \A c \in 1..StackSize :
              (/\ a < b /\ b < c
               /\ HasCancelPhrase(stack[b].card) /\ Targets(b, a)
               /\ HasCancelPhrase(stack[c].card) /\ Targets(c, b))
                  => (MarkedCancelled(StepOf(b)) /\ MarkedCancelled(StepOf(a)))

C12_Witness ==
    /\ StepsReady
    /\ StackSize = 3
    /\ stack[1].card.name # stack[2].card.name
    /\ ~HasCancelPhrase(stack[1].card)
    /\ HasCancelPhrase(stack[2].card) /\ Targets(2, 1)
    /\ HasCancelPhrase(stack[3].card) /\ Targets(3, 2) /\ ~Targets(3, 1)
    /\ MarkedCancelled(StepOf(2))
    /\ MarkedCancelled(StepOf(1))

----------------------------------------------------------------------------
(* Vocabulary of the ranking properties *)

\* the search has returned
Returned == rank_pc = "returned"

\* the distinct whitespace-separated words of a text
WordsOf(text) ==
    LET n == Len(text)
        Blank(i) == text[i] \in {" ", "\t", "\n"}
        IsWord(p) == /\ p[1] <= p[2]
                     /\ \A x \in p[1]..p[2] : ~Blank(x)
                     /\ (p[1] = 1 \/ Blank(p[1] - 1))
                     /\ (p[2] = n \/ Blank(p[2] + 1))
    IN  {SubSeq(text, p[1], p[2]) : p \in {q \in (1..n) \X (1..n) : IsWord(q)}}

\* the number of distinct lower-cased words a query and a text have in common
SharedWordCount(query, text) ==
    Cardinality(WordsOf(Lower(query)) \cap WordsOf(Lower(text)))

\* the lower-cased query occurs in the lower-cased text
PhraseMatch(query, text) == Contains(Lower(text), Lower(query))

\* the query has a digit and holds the rule's number verbatim
NumberMatch(query, rule) ==
    /\ \E i \in 1..Len(query) : query[i] \in DigitChars
    /\ Contains(query, rule.number)

\* a returned passage was made from a rule / from a glossary entry
IsRulePassage(e) == "rule_number" \in DOMAIN e.metadata

IsGlossaryPassage(e) == "term" \in DOMAIN e.metadata

\* where the entry a passage was made from stands in the input: the rules in
\* list order, then the glossary entries in iteration order
InputPosition(e) ==
    IF IsRulePassage(e)
    THEN CHOOSE n \in 1..Len(RulesList) :
             RulesList[n].number = e.metadata.rule_number
    ELSE Len(RulesList) +
         (CHOOSE n \in 1..Len(GlossaryItems) :
              GlossaryItems[n].term = e.metadata.term)

\* the place of rule n among the returned passages, 0 when it is not returned
PlaceOfRule(n) ==
    IF \E i \in 1..Len(rank_out) :
           IsRulePassage(rank_out[i])
           /\ rank_out[i].metadata.rule_number = RulesList[n].number
    THEN CHOOSE i \in 1..Len(rank_out) :
             IsRulePassage(rank_out[i])
             /\ rank_out[i].metadata.rule_number = RulesList[n].number
    ELSE 0

\* the place of glossary entry n among the returned passages, 0 when absent
PlaceOfGlossary(n) ==
    IF \E i \in 1..Len(rank_out) :
           IsGlossaryPassage(rank_out[i])
           /\ rank_out[i].metadata.term = GlossaryItems[n].term
    THEN CHOOSE i \in 1..Len(rank_out) :
             IsGlossaryPassage(rank_out[i])
             /\ rank_out[i].metadata.term = GlossaryItems[n].term
    ELSE 0

\* rule n shares exactly two words with the query and matches in no other way
SharesTwoWordsOnly(n) ==
    /\ SharedWordCount(rank_query, RulesList[n].text) = 2
    /\ ~PhraseMatch(rank_query, RulesList[n].text)
    /\ ~NumberMatch(rank_query, RulesList[n])

----------------------------------------------------------------------------
(* C13: the returned passages are in descending score order; passages of
   equal score keep the order of their entries in the input (rules in list
   order, then glossary entries in iteration order); two rules that share
   exactly two words with the query and match in no other way both score 20
   and are returned in corpus order.  The result is a function of the query,
   k and the corpus alone, so equal inputs give equal outputs. *)
C13_DescendingAndStable ==
    Returned =>
        /\ \A i \in 1..Len(rank_out) : \A j \in 1..Len(rank_out) :
              i < j =>
                  /\ rank_out[i].score >= rank_out[j].score
                  /\ rank_out[i].score = rank_out[j].score =>
                         InputPosition(rank_out[i]) < InputPosition(rank_out[j])
        /\ \A a \in 1..Len(RulesList) : \A b \in 1..Len(RulesList) :
              (a < b /\ SharesTwoWordsOnly(a) /\ SharesTwoWordsOnly(b)
                     /\ PlaceOfRule(b) > 0) =>
                  /\ PlaceOfRule(a) > 0
                  /\ PlaceOfRule(a) < PlaceOfRule(b)
                  /\ rank_out[PlaceOfRule(a)].score = 20
                  /\ rank_out[PlaceOfRule(b)].score = 20

\* "stack order": the glossary term first, then rules 405.1 and 405.2, both 20
C13_Witness ==
    /\ Returned
    /\ rank_query = Query1
    /\ SharesTwoWordsOnly(1) /\ SharesTwoWordsOnly(2)
    /\ PlaceOfRule(1) = 2 /\ PlaceOfRule(2) = 3
    /\ rank_out[2].score = 20 /\ rank_out[3].score = 20

----------------------------------------------------------------------------
(* Scores as the properties state them *)

\* 100 for a phrase match, 10 for each shared word, 50 for a number match
StatedRuleScore(n) ==
    (IF PhraseMatch(rank_query, RulesList[n].text) THEN 100 ELSE 0)
    + 10 * SharedWordCount(rank_query, RulesList[n].text)
    + (IF NumberMatch(rank_query, RulesList[n]) THEN 50 ELSE 0)

\* 150 for a term match either way round, 80 for a phrase match in the
\* definition, 8 for each word shared with the definition
StatedGlossaryScore(n) ==
    (IF Contains(Lower(rank_query), GlossaryItems[n].key)
        \/ Contains(GlossaryItems[n].key, Lower(rank_query))
     THEN 150 ELSE 0)
    + (IF PhraseMatch(rank_query, GlossaryItems[n].definition) THEN 80 ELSE 0)
    + 8 * SharedWordCount(rank_query, GlossaryItems[n].definition)

\* the entries whose score is not zero
ScoringRules == {n \in 1..Len(RulesList) : StatedRuleScore(n) > 0}

ScoringGlossary == {n \in 1..Len(GlossaryItems) : StatedGlossaryScore(n) > 0}

----------------------------------------------------------------------------
(* C14: for every query and every k >= 0 the search returns at most k
   passages, each with a score above 0 and each from a different entry; it
   returns min(k, number of entries scoring above 0) of them, and no entry
   left out scores more than a returned one. *)
C14_TopKOfScoring ==
    Returned =>
        LET scoring == Cardinality(ScoringRules) + Cardinality(ScoringGlossary)
        IN  /\ Len(rank_out) <= rank_k
            /\ Len(rank_out) = (IF rank_k < scoring THEN rank_k ELSE scoring)
            /\ \A i \in 1..Len(rank_out) : rank_out[i].score > 0
            /\ \A i \in 1..Len(rank_out) : \A j \in 1..Len(rank_out) :
                  i # j => InputPosition(rank_out[i]) # InputPosition(rank_out[j])
            /\ \A n \in ScoringRules : PlaceOfRule(n) = 0 =>
                  \A i \in 1..Len(rank_out) :
                      rank_out[i].score >= StatedRuleScore(n)
            /\ \A n \in ScoringGlossary : PlaceOfGlossary(n) = 0 =>
                  \A i \in 1..Len(rank_out) :
                      rank_out[i].score >= StatedGlossaryScore(n)
            /\ \A n \in 1..Len(RulesList) :
                  n \notin ScoringRules => PlaceOfRule(n) = 0
            /\ \A n \in 1..Len(GlossaryItems) :
                  n \notin ScoringGlossary => PlaceOfGlossary(n) = 0

\* "3 damage" with k = 5: one entry scores above 0 and one passage is returned
C14_Witness ==
    /\ Returned
    /\ rank_query = Query8
    /\ rank_k = 5
    /\ Cardinality(ScoringRules) + Cardinality(ScoringGlossary) = 1
    /\ Len(rank_out) = 1

----------------------------------------------------------------------------
(* C15: a returned rule passage carries exactly 100 (phrase match) + 10 x
   (distinct shared lower-cased words) + 50 (digit in the query and the
   rule's number in the query), and when k covers the whole corpus the rules
   returned are exactly those for which that sum is above 0. *)
C15_RuleScore ==
    Returned =>
        \A n \in 1..Len(RulesList) :
            /\ PlaceOfRule(n) > 0 =>
                   rank_out[PlaceOfRule(n)].score = StatedRuleScore(n)
            /\ rank_k >= Len(RulesList) + Len(GlossaryItems) =>
                   (PlaceOfRule(n) > 0 <=> StatedRuleScore(n) > 0)

\* "405.1 stack": rule 405.1 shares one word and is named: 10 + 50
C15_Witness ==
    /\ Returned
    /\ rank_query = Query3
    /\ NumberMatch(rank_query, RulesList[1])
    /\ SharedWordCount(rank_query, RulesList[1].text) = 1
    /\ PlaceOfRule(1) > 0
    /\ rank_out[PlaceOfRule(1)].score = 60

----------------------------------------------------------------------------
(* C16: a returned glossary passage carries exactly 150 (the lower-cased
   query contains the term or the term contains the query) + 80 (the query
   occurs in the lower-cased definition) + 8 x (distinct words shared with the
   definition), and when k covers the whole corpus the glossary entries
   returned are exactly those for which that sum is above 0. *)
C16_GlossaryScore ==
    Returned =>
        \A n \in 1..Len(GlossaryItems) :
            /\ PlaceOfGlossary(n) > 0 =>
                   rank_out[PlaceOfGlossary(n)].score = StatedGlossaryScore(n)
            /\ rank_k >= Len(RulesList) + Len(GlossaryItems) =>
                   (PlaceOfGlossary(n) > 0 <=> StatedGlossaryScore(n) > 0)

\* "first strike": the term matches and "first" is in the definition: 150 + 8
C16_Witness ==
    /\ Returned
    /\ rank_query = Query4
    /\ PlaceOfGlossary(2) > 0
    /\ rank_out[PlaceOfGlossary(2)].score = 158

----------------------------------------------------------------------------
\* the query is the term of glossary entry g
QueryIsTerm(g) == Lower(rank_query) = GlossaryItems[g].key

\* rule n scores only through the words it shares with the query
SharedWordsOnly(n) ==
    /\ SharedWordCount(rank_query, RulesList[n].text) > 0
    /\ ~PhraseMatch(rank_query, RulesList[n].text)
    /\ ~NumberMatch(rank_query, RulesList[n])

(* C17 as stated: when the query is a glossary term, that glossary entry is
   returned above every returned rule that scores only through shared words,
   however many words are shared. *)
C17_TermAboveAnySharedWords ==
    Returned =>
        \A g \in 1..Len(GlossaryItems) : \A n \in 1..Len(RulesList) :
            (QueryIsTerm(g) /\ SharedWordsOnly(n) /\ PlaceOfRule(n) > 0) =>
                /\ PlaceOfGlossary(g) > 0
                /\ PlaceOfGlossary(g) < PlaceOfRule(n)

(* C17 amended: when the query is a glossary term, that glossary entry is
   returned above every returned rule that scores only through shared words
   and shares at most 14 distinct words with the query. *)
C17_TermAboveFewSharedWords ==
    Returned =>
        \A g \in 1..Len(GlossaryItems) : \A n \in 1..Len(RulesList) :
            (QueryIsTerm(g) /\ SharedWordsOnly(n) /\ PlaceOfRule(n) > 0
                /\ SharedWordCount(rank_query, RulesList[n].text) <= 14) =>
                /\ PlaceOfGlossary(g) > 0
                /\ PlaceOfGlossary(g) < PlaceOfRule(n)

\* the 14-word term as query: rule 100.1 shares all 14 words (140) and comes
\* after the glossary entry (150)
C17_Witness ==
    /\ Returned
    /\ QueryIsTerm(3)
    /\ SharedWordsOnly(4)
    /\ SharedWordCount(rank_query, RulesList[4].text) = 14
    /\ PlaceOfGlossary(3) > 0
    /\ PlaceOfRule(4) > PlaceOfGlossary(3)

----------------------------------------------------------------------------
(* Vocabulary of the explanation properties *)

\* the context has been built and handed to the rules engine
ContextBuilt == pc \in {"await_llm", "done", "failed"}

\* the request is over: a response was returned or an exception left it
RequestOver == pc \in {"done", "failed"}

\* the names on the stack, in push order
PushOrderNames == [i \in 1..Len(stack) |-> stack[i].card.name]

(* C18: the context holds a summary (name, type, text) for exactly the
   fetched cards with found = true, in fetch order; stack_order is the stack's
   card names in push order; resolution_order is the exact reverse of
   stack_order; every name in stack_order is the name of a summarised card. *)
C18_ContextOfRequest ==
    ContextBuilt =>
        LET fi == FoundIndices(Len(cards))
            n == Len(context.stack_order)
        IN  /\ Len(context.cards) = Len(fi)
            /\ \A x \in 1..Len(fi) :
                  /\ context.cards[x].name = cards[fi[x]].name
                  /\ context.cards[x].type = cards[fi[x]].type_line
                  /\ context.cards[x].text = cards[fi[x]].oracle_text
            /\ context.stack_order = PushOrderNames
            /\ Len(context.resolution_order) = n
            /\ \A i \in 1..n :
                  context.resolution_order[i] = context.stack_order[n + 1 - i]
            /\ \A i \in 1..n : \E x \in 1..Len(context.cards) :
                  context.cards[x].name = context.stack_order[i]

----------------------------------------------------------------------------
(* C19: a request calls the language model exactly once: no call has been
   made before the stack and the steps are computed, one call has been made
   from then on whatever the reply (answer, unparseable text, failure), and
   at the time of the call the cards, the stack and the steps of this request
   are in place. *)
C19_OneCallAfterSteps ==
    /\ pc \in {"fetch", "build", "steps", "explain"} => llm_calls = 0
    /\ pc \in {"await_llm", "done", "failed"} =>
          /\ llm_calls = 1
          /\ Len(cards) = Len(card_names)
          /\ Len(resolution_steps) = Len(stack)
          /\ context.stack_order = PushOrderNames

\* the call raised: the request failed after one call
C19_Witness ==
    /\ pc = "failed"
    /\ llm_reply.kind = "api_error"
    /\ llm_calls = 1
    /\ Len(stack) = 2

----------------------------------------------------------------------------
\* the reply is a text from which no JSON object can be taken: it has no
\* opening brace followed by a closing brace, or what lies between the first
\* opening and the last closing brace is not a JSON object
HasBraceSpan ==
    \E a \in 1..Len(llm_reply.text) : \E b \in 1..Len(llm_reply.text) :
        a < b /\ llm_reply.text[a] = "{" /\ llm_reply.text[b] = "}"

BraceSpan ==
    LET t == llm_reply.text
        a == CHOOSE i \in 1..Len(t) :
                 t[i] = "{" /\ \A j \in 1..(i - 1) : t[j] # "{"
        b == CHOOSE i \in 1..Len(t) :
                 t[i] = "}" /\ \A j \in (i + 1)..Len(t) : t[j] # "}"
    IN  SubSeq(t, a, b)

Unparseable ==
    /\ llm_reply.kind = "text"
    /\ ~(HasBraceSpan /\ IsJsonObject(BraceSpan))

CollaboratorFailed == llm_reply.kind \in {"api_error", "no_content"}

\* the rule numbers of the rule passages ranked for the question put to the
\* rules engine, best first
RankedRuleNumbers ==
    LET ranked == SearchRelevantRules(
                      EnhancedQuestion(question, context.stack_order), 8)
        rules == {i \in 1..Len(ranked) : IsRulePassage(ranked[i])}
        Nth(x) == CHOOSE i \in rules :
                      Cardinality({j \in rules : j < i}) = x - 1
    IN  [x \in 1..Cardinality(rules) |-> ranked[Nth(x)].metadata.rule_number]

(* C20 as stated: when the language model fails or its output cannot be
   parsed, the request still returns a response whose explanation is the raw
   text (when there is one) and whose rules_references are the rule numbers
   of the passages ranked for the question. *)
C20_AlwaysDegradedWithReferences ==
    (RequestOver /\ (CollaboratorFailed \/ Unparseable)) =>
        /\ pc = "done"
        /\ response.status = "ok"
        /\ llm_reply.kind = "text" => response.explanation = llm_reply.text
        /\ response.rules_references = RankedRuleNumbers

(* C20 amended: when the reply is a text without an opening brace followed
   by a closing brace, the request returns the raw text as explanation and
   the rule numbers of the ranked rule passages as rules_references; when the
   text between its first opening and last closing brace is not a JSON
   object, the request returns the raw text with no rules_references; when
   the call fails, the request fails and returns no response. *)
C20_DegradedOnlyForText ==
    RequestOver =>
        /\ (Unparseable /\ ~HasBraceSpan) =>
              /\ pc = "done"
              /\ response.status = "ok"
              /\ response.explanation = llm_reply.text
              /\ response.rules_references = RankedRuleNumbers
              /\ response.stack_visualization = stack
              /\ response.resolution_steps = resolution_steps
        /\ (Unparseable /\ HasBraceSpan) =>
              /\ pc = "done"
              /\ response.status = "ok"
              /\ response.explanation = llm_reply.text
              /\ response.rules_references = <<>>
        /\ CollaboratorFailed =>
              /\ pc = "failed"
              /\ response.status = "failed"

\* a reply without braces on the question that names rule 601.2: the raw
\* text comes back with rules 601.2, 405.1 and 405.2
C20_Witness ==
    /\ pc = "done"
    /\ question = Question2
    /\ Unparseable /\ ~HasBraceSpan
    /\ response.explanation = llm_reply.text
    /\ response.rules_references = <<RuleNumber3, RuleNumber1, RuleNumber2>>

----------------------------------------------------------------------------
(* Vocabulary of the API properties *)

\* the /api/ask requests received so far
AskRequests == {i \in 1..Len(requests) : requests[i].kind = "ask"}

\* the request has been answered
Responded(i) == requests[i].pc = "responded"

\* the call to the language model of request i failed
ModelCallFailed(i) == requests[i].reply.kind \in {"api_error", "no_content"}

\* the text of the failure of the call
ModelCallFailureText(i) ==
    IF requests[i].reply.kind = "api_error" THEN "Connection error."
    ELSE "list index out of range"

(* C21: when the call to the language model raises, the /api/ask request is
   answered with HTTP 500, the detail starts with "Error: " followed by the
   text of the exception, and no part of the result (stack, steps) is
   returned. *)
C21_ModelFailureIs500 ==
    \A i \in AskRequests :
        (Responded(i) /\ ModelCallFailed(i)) =>
            /\ requests[i].http.status = 500
            /\ Len(requests[i].http.detail) >= 2
            /\ requests[i].http.detail[1] = "Error: "
            /\ requests[i].http.detail[2] = ModelCallFailureText(i)
            /\ requests[i].http.result.stack_visualization = <<>>
            /\ requests[i].http.result.resolution_steps = <<>>
            /\ requests[i].http.result.status # "ok"

\* a request whose stack and steps were computed and whose call raised
C21_Witness ==
    \E i \in AskRequests :
        /\ Responded(i)
        /\ requests[i].reply.kind = "api_error"
        /\ Len(requests[i].stack) = 2
        /\ Len(requests[i].resolution_steps) = 2
        /\ requests[i].http.status = 500

----------------------------------------------------------------------------
\* the language model gave an answer the request can return
UsableReply ==
    /\ llm_reply.kind = "text"
    /\ ~(HasBraceSpan /\ IsJsonObject(BraceSpan)
         /\ \A x \in 1..Len(BraceSpan) : BraceSpan[x] # AnswerMember)

(* C22: when no action or card yields a stack entry, the step list is empty,
   the explanation step is still run (one call to the language model, with
   empty stack_order and resolution_order), the request fails only if that
   call does, and the response returned has an empty stack_visualization and
   an empty resolution_steps. *)
C22_EmptyStackStillAnswered ==
    (stack = <<>> /\ pc \in {"explain", "await_llm", "done", "failed"}) =>
        /\ resolution_steps = <<>>
        /\ pc \in {"await_llm", "done", "failed"} =>
              /\ llm_calls = 1
              /\ context.stack_order = <<>>
              /\ context.resolution_order = <<>>
        /\ pc = "failed" => ~UsableReply
        /\ pc = "done" =>
              /\ response.status = "ok"
              /\ response.stack_visualization = <<>>
              /\ response.resolution_steps = <<>>

\* a card was fetched and an action supplied, but the action names another
\* card: the stack is empty and the response lists nothing
C22_Witness ==
    /\ pc = "done"
    /\ Len(cards) = 1
    /\ player_actions.given /\ Len(player_actions.list) = 1
    /\ stack = <<>>
    /\ llm_calls = 1
    /\ response.status = "ok"
    /\ response.stack_visualization = <<>>
    /\ response.resolution_steps = <<>>

----------------------------------------------------------------------------
\* the request got a result
Served(i) == requests[i].http.status = 200

(* C23 as stated: while the rule corpus is missing the process serves no
   request of any kind. *)
C23_NothingServedWithoutCorpus ==
    ~env.corpus => \A i \in 1..Len(requests) : ~Served(i)

(* C23 amended: the process starts and answers requests while the rule corpus
   is missing; as long as it is missing, the rules engine and the resolver
   are never built, and every /api/ask request is answered at once with HTTP
   500 whose detail carries the text of the construction error; none gets a
   result. *)
C23_NoAskServedWithoutCorpus ==
    ~env.corpus =>
        /\ rules_engine = "None"
        /\ stack_resolver = "None"
        /\ constructions = 0
        /\ \A i \in AskRequests :
              /\ Responded(i)
              /\ requests[i].http.status = 500
              /\ requests[i].http.detail[1] = "Error: "
              /\ requests[i].http.detail[2] =
                    (IF env.api_key
                     THEN "Pre-processed rules not found at rules/rules_data.json. "
                          \o "Run 'python preprocess_rules.py' first!"
                     ELSE "ANTHROPIC_API_KEY not found in environment")
              /\ requests[i].cards = <<>>

\* the corpus is missing: a health request was served and an /api/ask request
\* was refused with the corpus error
C23_Witness ==
    /\ ~env.corpus
    /\ env.api_key
    /\ \E i \in 1..Len(requests) : requests[i].kind = "health" /\ Served(i)
    /\ \E i \in AskRequests :
          /\ requests[i].http.status = 500
          /\ requests[i].http.detail[2] = MissingCorpusText

----------------------------------------------------------------------------
\* the names the card provider has a card for, and the name it gives the card
ProviderHas(n) == n \in {"bolt", "Counterspell"}

ProviderNameOf(n) == IF n = "bolt" THEN "Bolt" ELSE n

(* C24: nothing is on the stack while the cards are being fetched, and from
   the moment stack building can start there is exactly one result per
   requested name, in input order: the provider's card with found = true for
   a name it has, the placeholder with that name and found = false for a name
   it does not have. *)
C24_AllResultsBeforeBuild ==
    /\ pc = "fetch" => (cards = <<>> /\ stack = <<>>)
    /\ pc \in {"build", "steps", "explain"} =>
          /\ Len(cards) = Len(card_names)
          /\ \A i \in 1..Len(card_names) :
                IF ProviderHas(card_names[i])
                THEN /\ cards[i].found
                     /\ cards[i].name = ProviderNameOf(card_names[i])
                ELSE /\ ~cards[i].found
                     /\ cards[i].name = card_names[i]
    /\ pc = "build" => stack = <<>>

\* a name that is not found, then one that is: two results in that order
C24_Witness ==
    /\ pc = "build"
    /\ card_names = <<"Ghost", "bolt">>
    /\ Len(cards) = 2
    /\ ~cards[1].found /\ cards[1].name = "Ghost"
    /\ cards[2].found /\ cards[2].name = "Bolt"

----------------------------------------------------------------------------
\* what a request with this body computes when it is the only request
AloneCards(body) == SearchCardsBulk(body.cards)

AloneStack(body) == BuildStackOf(AloneCards(body), body.player_actions)

AloneSteps(body) == GenerateResolutionSteps(AloneStack(body))

(* C25: whatever the interleaving of the /api/ask requests, the cards a
   request has fetched so far are the first results of its own lookups, its
   stack and its steps start empty and, once computed, are those the request
   computes when it runs alone; the result it returns carries them. *)
C25_RequestScoped ==
    \A i \in AskRequests :
        LET r == requests[i]
        IN  /\ Len(r.cards) <= Len(r.body.cards)
            /\ \A x \in 1..Len(r.cards) : r.cards[x] = AloneCards(r.body)[x]
            /\ r.pc = "fetch" => (r.stack = <<>> /\ r.resolution_steps = <<>>)
            /\ r.pc = "steps" =>
                  (r.stack = AloneStack(r.body) /\ r.resolution_steps = <<>>)
            /\ r.pc = "explain" =>
                  /\ r.stack = AloneStack(r.body)
                  /\ r.resolution_steps = AloneSteps(r.body)
            /\ Served(i) =>
                  /\ r.http.result.stack_visualization = AloneStack(r.body)
                  /\ r.http.result.resolution_steps = AloneSteps(r.body)

\* two requests with different bodies in flight: the first has its steps and
\* waits for its explanation, the second, received later, is still fetching
C25_Witness ==
    /\ Len(requests) = 2
    /\ requests[1].kind = "ask" /\ requests[2].kind = "ask"
    /\ requests[1].body # requests[2].body
    /\ requests[1].pc = "explain"
    /\ Len(requests[1].resolution_steps) = 2
    /\ requests[2].pc = "fetch"
    /\ Len(requests[2].cards) = 1
    /\ requests[2].cards # SubSeq(requests[1].cards, 1, 1)

----------------------------------------------------------------------------
(* C26: the steps that build the stack, generate the resolution steps and
   assemble the explanation leave the fetched card records and the supplied
   actions, targets lists included, as they were. *)
C26_InputsOnlyRead ==
    [][(pc \in {"build", "steps", "explain", "await_llm"})
          => (cards' = cards /\ player_actions' = player_actions)]_vars

\* a request with a fetched card and an action with a target has gone through
\* the three steps; the stack entry holds the card record and the targets
C26_Witness ==
    /\ pc = "await_llm"
    /\ Len(stack) = 1
    /\ player_actions.given
    /\ Len(player_actions.list) = 1
    /\ player_actions.list[1].targets # <<>>
    /\ stack[1].targets = player_actions.list[1].targets
    /\ \E i \in 1..Len(cards) : cards[i].found /\ stack[1].card = cards[i]
    /\ cards = SearchCardsBulk(card_names)

----------------------------------------------------------------------------
(* Vocabulary of the rendering properties *)

Rendered == pc = "rendered"

\* the rendered items are listed top of the stack first, so item x is the
\* entry resolved at step x
ResolvedAtStep(x) == viz_items[x]

(* C27: with 1 <= current_step <= N exactly one stack item, the one resolved
   at step current_step, has the state class 'resolving', the items resolved
   at earlier steps have 'resolved' and the items still waiting have none;
   with current_step = 0 no item has a state class. *)
C27_OneResolvingItem ==
    Rendered =>
        \A x \in 1..Len(viz_items) :
            ResolvedAtStep(x).state_class =
                (IF viz_step = 0 THEN ""
                 ELSE IF x < viz_step THEN "resolved"
                 ELSE IF x = viz_step THEN "resolving"
                 ELSE "")

----------------------------------------------------------------------------
(* C28: the resolution list of generate_stack_html has one entry per
   resolution step, for the same card in the same order, written as
   countered exactly when the resolver marks that step as countered; for
   the stack handed to the visualizer the two walks hold the same set of
   countered names after every index. *)
C28_ListAgreesWithSteps ==
    /\ Rendered =>
          /\ Len(viz_list) = Len(resolution_steps)
          /\ \A i \in 1..Len(viz_list) :
                /\ viz_list[i].name = resolution_steps[i].card.name
                /\ viz_list[i].is_countered
                      <=> MarkedCancelled(resolution_steps[i])
    /\ StepsReady =>
          \A i \in 1..StackSize :
              VizCounteredAfter(Reversed(stack), i)
                  = CounteredAfter(ResolutionOrder(stack), i)

\* a chain of three: the top entry resolves, the two below are countered
C28_Witness ==
    /\ Rendered
    /\ Len(viz_list) = 3
    /\ ~viz_list[1].is_countered
    /\ viz_list[2].is_countered
    /\ viz_list[3].is_countered
    /\ MarkedCancelled(resolution_steps[3])
    /\ ~MarkedCancelled(resolution_steps[1])

----------------------------------------------------------------------------
(* Vocabulary of the lazy construction of the rules engine *)

EngineBuilt == rules_engine # "None"

ResolverBuilt == stack_resolver # "None"

\* this step is the arrival of a POST /api/ask
AskArrival ==
    /\ Len(requests') = Len(requests) + 1
    /\ requests'[Len(requests')].kind = "ask"

\* the environment lets RulesEngineLite() return
EnvironmentComplete == env.api_key /\ env.corpus

\* the request answered by the failure of the constructor
AnsweredByConstructionFailure(r) ==
    /\ r.pc = "responded"
    /\ r.http.status = 500
    /\ r.http.detail[2] \in {MissingKeyText, MissingCorpusText}

(* C29: over every interleaving of requests the rules engine is constructed
   successfully at most once; stack_resolver is set exactly when rules_engine
   is; once built, neither is replaced; and every /api/ask that arrives while
   they are unset runs the constructor again: it either builds both, or fails
   with the constructor's error and leaves both unset. *)
C29_EngineBuiltAtMostOnce ==
    /\ [](constructions <= 1)
    /\ [](ResolverBuilt <=> EngineBuilt)
    /\ [][EngineBuilt =>
            /\ rules_engine' = rules_engine
            /\ stack_resolver' = stack_resolver
            /\ constructions' = constructions]_vars
    /\ [][(AskArrival /\ ~EngineBuilt) =>
            IF EnvironmentComplete
            THEN /\ rules_engine' # "None"
                 /\ stack_resolver' # "None"
                 /\ constructions' = constructions + 1
            ELSE /\ rules_engine' = "None"
                 /\ stack_resolver' = "None"
                 /\ constructions' = constructions
                 /\ AnsweredByConstructionFailure(requests'[Len(requests')])]_vars

\* a first request met the failure of the constructor, a later one built the
\* engine
C29_Witness ==
    /\ Len(requests) = 2
    /\ requests[1].kind = "ask"
    /\ AnsweredByConstructionFailure(requests[1])
    /\ requests[2].kind = "ask"
    /\ ~AnsweredByConstructionFailure(requests[2])
    /\ EngineBuilt
    /\ ResolverBuilt
    /\ constructions = 1

----------------------------------------------------------------------------
(* Vocabulary of the resolution walk, by resolution index *)

\* the stack entry that resolves at step i
ResolvesAt(i) == stack[StackSize + 1 - i]

\* the entry resolving at step j is a cancelling entry that targets name
CancelsName(j, name) ==
    /\ HasCancelPhrase(ResolvesAt(j).card)
    /\ \E x \in 1..Len(ResolvesAt(j).targets) : ResolvesAt(j).targets[x] = name

(* C30: an entry is marked cancelled exactly when a cancelling entry that
   targets its name resolves at or before it: of the entries sharing a name,
   those resolving at or after the first such cancelling entry are marked
   cancelled and those resolving before it are not. The cancelled set only
   grows: once an entry with a name is marked cancelled, every entry with
   that name resolving later is marked cancelled too. *)
C30_CancelledFromCancellerOn ==
    StepsReady =>
        /\ Len(resolution_steps) = StackSize
        /\ \A i \in 1..StackSize :
              MarkedCancelled(resolution_steps[i])
                 <=> \E j \in 1..i : CancelsName(j, ResolvesAt(i).card.name)
        /\ \A i \in 1..StackSize : \A k \in i..StackSize :
              (/\ MarkedCancelled(resolution_steps[i])
               /\ ResolvesAt(k).card.name = ResolvesAt(i).card.name)
                  => MarkedCancelled(resolution_steps[k])

\* two entries share a name; one resolves before the entry that cancels the
\* name and is not marked, the other resolves after it and is marked
C30_Witness ==
    /\ StepsReady
    /\ StackSize = 3
    /\ ResolvesAt(1).card.name = ResolvesAt(3).card.name
    /\ ~HasCancelPhrase(ResolvesAt(1).card)
    /\ CancelsName(2, ResolvesAt(1).card.name)
    /\ ~MarkedCancelled(resolution_steps[1])
    /\ MarkedCancelled(resolution_steps[3])

====
